---- MODULE Spec2Model ----
(***************************************************************************)
(* Model of the niche website ranker: discovery of candidate sites from a  *)
(* search provider, fail-soft scoring, and the /api/generate route         *)
(* handlers (POST = Submit, GET = Retrieve) with their in-memory run       *)
(* store.  The repository holds several versions of the same modules; the  *)
(* versions are kept apart by an implementation tag:                       *)
(*   "cse"   discoverNicheWebsites of the google-search service            *)
(*   "page"  the self-contained production route (own discovery, scoring)  *)
(*   "opr"   the provider based discovery (GoogleCSE / BraveSearch)        *)
(*   "route" the live route with the in-memory runStorage                  *)
(***************************************************************************)
EXTENDS Naturals, Integers, Sequences, FiniteSets, TLC

(***************************************************************************)
(* Bounds of the model                                                     *)
(***************************************************************************)
\* number of query variants the discovery loops are followed for
MaxVariants == 2

Min(a, b) == IF a < b THEN a ELSE b
Max(a, b) == IF a > b THEN a ELSE b

(***************************************************************************)
(* URLs.  A link is what the provider puts in `link`: either a string      *)
(* `new URL` rejects (wf = FALSE) or scheme, host labels, number of path   *)
(* segments and whether a query/hash part is present.                      *)
(***************************************************************************)
BadLink == [wf |-> FALSE, scheme |-> "", host |-> <<>>, path |-> 0, q |-> FALSE]
Url(s, h, p, q) == [wf |-> TRUE, scheme |-> s, host |-> h, path |-> p, q |-> q]

LinkPool ==
  { Url("https", <<"a", "com">>, 1, FALSE),
    Url("https", <<"a", "com">>, 4, TRUE),
    Url("http", <<"a", "com">>, 0, FALSE),
    Url("https", <<"www", "a", "com">>, 0, FALSE),
    Url("https", <<"b", "org">>, 0, FALSE),
    Url("https", <<"www", "youtube", "com">>, 1, FALSE),
    Url("https", <<"reddit", "com">>, 2, FALSE),
    BadLink }

\* url.origin : scheme + host (default ports)
Origin(l) == [scheme |-> l.scheme, host |-> l.host]

\* hostname.replace(/^www\./, '')
StripLeadingWww(h) == IF Len(h) > 1 /\ h[1] = "www" THEN Tail(h) ELSE h

\* h.replace('www.', '') : the first occurrence, wherever it is
RECURSIVE ReplaceFirstWww(_)
ReplaceFirstWww(h) ==
  IF Len(h) <= 1 THEN h
  ELSE IF h[1] = "www" THEN Tail(h)
  ELSE <<h[1]>> \o ReplaceFirstWww(Tail(h))

\* shouldSkipDomain of the google-search service
skipDomainsCse ==
  { <<"google", "com">>, <<"youtube", "com">>, <<"facebook", "com">>,
    <<"twitter", "com">>, <<"instagram", "com">>, <<"linkedin", "com">> }
\* a skip test on the host as it is, "www." included
shouldSkipDomainCseExact(h) == h \in skipDomainsCse
shouldSkipDomainCse(h) == StripLeadingWww(h) \in skipDomainsCse

\* shouldSkipDomain of the production route
skipDomainsPage ==
  skipDomainsCse \cup { <<"reddit", "com">>, <<"wikipedia", "org">> }
shouldSkipDomainPage(h) == StripLeadingWww(h) \in skipDomainsPage

\* isBlockedHost of the provider based discovery
blockedHosts ==
  { <<"apps", "apple", "com">>, <<"itunes", "apple", "com">>,
    <<"play", "google", "com">>, <<"apps", "microsoft", "com">>,
    <<"chrome", "google", "com">>, <<"apps", "shopify", "com">>,
    <<"twitter", "com">>, <<"x", "com">>, <<"tiktok", "com">>,
    <<"instagram", "com">>, <<"facebook", "com">>, <<"linkedin", "com">>,
    <<"pinterest", "com">>, <<"youtube", "com">>, <<"reddit", "com">> }
isBlockedHost(h) == ReplaceFirstWww(h) \in blockedHosts

\* hostname(u) : '' for a string that does not parse
hostname(l) == IF l.wf THEN l.host ELSE <<>>

\* etld1(u) : the last two labels of the host
etld1(l) ==
  LET h == hostname(l)
  IN IF Len(h) <= 2 THEN h ELSE SubSeq(h, Len(h) - 1, Len(h))

\* toHomepage(u) : drop hash and query, cut paths deeper than 3 segments
toHomepage(l) ==
  IF ~l.wf THEN l
  ELSE [l EXCEPT !.q = FALSE, !.path = IF l.path > 3 THEN 0 ELSE l.path]

(***************************************************************************)
(* Raw provider results.  title / snippet are the provided text or empty.  *)
(***************************************************************************)
Raw(l, t, s) == [link |-> l, title |-> t, snippet |-> s]

RawPool ==
  { Raw(l, <<"T">>, <<"S">>) : l \in LinkPool \ {Url("https", <<"b", "org">>, 0, FALSE)} }
    \cup { Raw(Url("https", <<"b", "org">>, 0, FALSE), <<>>, <<>>) }

\* what one provider call can give back: a page of results, or a failure
PageResponses == { <<>> } \cup { <<r>> : r \in RawPool }
CallOutcomes == { [ok |-> TRUE, items |-> p] : p \in PageResponses }
                  \cup { [ok |-> FALSE, items |-> <<>>] }
\* what the call for the second page (start=11) can give back: a failure,
\* no result, an origin already seen, a result without title, a skipped host
SecondPageOutcomes ==
  { o \in CallOutcomes :
      \/ o.items = <<>>
      \/ o.items[1].link \in { Url("https", <<"a", "com">>, 4, TRUE),
                               Url("https", <<"b", "org">>, 0, FALSE),
                               Url("https", <<"reddit", "com">>, 2, FALSE) } }


(***************************************************************************)
(* Program constants of the discovery code                                 *)
(***************************************************************************)
\* `if (uniqueItems.length >= 15) break`
UniqueLimit == 15
\* `uniqueItems.slice(0, 10)`
TopN == 10
\* `if (filtered.length >= 10) break`
OprLimit == 10
\* number of query templates of each version
CseQueries == 5
PageQueries == 3
GoogleCseQueries == 4
BraveQueries == 3
\* `if (allResults.length >= 40) break` / `>= 30`
GoogleCseEnough == 40
BraveEnough == 30

\* a return without the slice
TakeAll(s, n) == s

\* s.slice(0, n)
Take(s, n) == SubSeq(s, 1, Min(n, Len(s)))

NoError == [has |-> FALSE, msg |-> ""]
Error(m) == [has |-> TRUE, msg |-> m]

(***************************************************************************)
(* discoverNicheWebsites, google-search service ("cse")                    *)
(***************************************************************************)
\* an iteration that pushes the second page before the first
CseVariantPage2First(acc, o1, o2) ==
  IF ~o1.ok
    THEN [acc EXCEPT !.lastError = "Google Search API error"]
    ELSE [acc EXCEPT !.all =
            IF Len(o1.items) > 0 /\ o2.ok
              THEN acc.all \o o2.items \o o1.items
              ELSE acc.all \o o1.items]

\* one iteration of the for-loop over the query variants: acc is
\* [all, lastError]; o1, o2 are the outcomes of the page 1 / page 2 calls
CseVariant(acc, o1, o2) ==
  IF ~o1.ok
    THEN [acc EXCEPT !.lastError = "Google Search API error"]
    ELSE [acc EXCEPT !.all =
            IF Len(o1.items) > 0 /\ o2.ok
              THEN acc.all \o o1.items \o o2.items
              ELSE acc.all \o o1.items]

CseItem(r) ==
  [url |-> r.link,
   title |-> IF r.title # <<>> THEN r.title ELSE r.link.host,
   description |-> IF r.snippet # <<>> THEN r.snippet
                   ELSE <<"Website from">> \o r.link.host]

\* the same loop without the `seenOrigins.has(origin)` test
RECURSIVE CseDedupNoSeen(_, _, _)
CseDedupNoSeen(rs, seenOrigins, uniqueItems) ==
  IF rs = <<>> \/ Len(uniqueItems) >= UniqueLimit THEN uniqueItems
  ELSE LET result == Head(rs)
       IN IF ~result.link.wf \/ shouldSkipDomainCse(result.link.host)
            THEN CseDedupNoSeen(Tail(rs), seenOrigins, uniqueItems)
          ELSE CseDedupNoSeen(Tail(rs), seenOrigins,
                              Append(uniqueItems, CseItem(result)))

\* the loop over allResults that validates, filters and deduplicates
RECURSIVE CseDedup(_, _, _)
CseDedup(rs, seenOrigins, uniqueItems) ==
  IF rs = <<>> \/ Len(uniqueItems) >= UniqueLimit THEN uniqueItems
  ELSE LET result == Head(rs)
       IN IF ~result.link.wf
            THEN CseDedup(Tail(rs), seenOrigins, uniqueItems)
          ELSE IF Origin(result.link) \in seenOrigins
            THEN CseDedup(Tail(rs), seenOrigins, uniqueItems)
          ELSE IF shouldSkipDomainCse(result.link.host)
            THEN CseDedup(Tail(rs), seenOrigins, uniqueItems)
          ELSE CseDedup(Tail(rs), seenOrigins \cup {Origin(result.link)},
                        Append(uniqueItems, CseItem(result)))

\* what discoverNicheWebsites returns once the variants have been tried
CseReturnValue(acc) ==
  IF Len(acc.all) = 0
    THEN [items |-> <<>>,
          error |-> Error(IF acc.lastError # "" THEN acc.lastError
                          ELSE "No results found from any search variant")]
    ELSE [items |-> Take(CseDedup(acc.all, {}, <<>>), TopN), error |-> NoError]

(***************************************************************************)
(* discoverNicheWebsites, production route ("page"): returns origins only  *)
(***************************************************************************)
\* an iteration that keeps nothing of a variant one of whose calls failed
PageVariantAllOrNothing(acc, o1, o2) ==
  IF ~o1.ok THEN acc
  ELSE IF Len(o1.items) > 0 /\ ~o2.ok THEN acc
  ELSE [acc EXCEPT !.all =
          IF Len(o1.items) > 0
            THEN acc.all \o o1.items \o o2.items
            ELSE acc.all \o o1.items]

\* one iteration: a failing page 2 call throws into the same catch, after
\* the page 1 results have been pushed
PageVariant(acc, o1, o2) ==
  IF ~o1.ok THEN acc
  ELSE [acc EXCEPT !.all =
          IF Len(o1.items) > 0 /\ o2.ok
            THEN acc.all \o o1.items \o o2.items
            ELSE acc.all \o o1.items]

PageItem(r) == [url |-> Url(r.link.scheme, r.link.host, 0, FALSE)]

RECURSIVE PageDedup(_, _, _)
PageDedup(rs, originSet, origins) ==
  IF rs = <<>> \/ Len(origins) >= UniqueLimit THEN origins
  ELSE LET result == Head(rs)
       IN IF ~result.link.wf
            THEN PageDedup(Tail(rs), originSet, origins)
          ELSE IF shouldSkipDomainPage(result.link.host)
                  \/ Origin(result.link) \in originSet
            THEN PageDedup(Tail(rs), originSet, origins)
          ELSE PageDedup(Tail(rs), originSet \cup {Origin(result.link)},
                         Append(origins, PageItem(result)))

PageReturnValue(acc) ==
  [items |-> Take(PageDedup(acc.all, {}, <<>>), TopN), error |-> NoError]

(***************************************************************************)
(* discoverNicheWebsites, provider based ("opr")                           *)
(***************************************************************************)
\* one query of GoogleCSE.search / BraveSearch.search: one call, `continue`
\* on a failure
OprQueryStep(acc, o) ==
  IF ~o.ok THEN acc ELSE [acc EXCEPT !.all = acc.all \o o.items]

OprItem(r) ==
  [url |-> toHomepage(r.link),
   title |-> r.title,
   description |-> IF r.snippet # <<>> THEN r.snippet ELSE <<"Top website for">>]

RECURSIVE OprFilter(_, _, _)
OprFilter(raw, seen, filtered) ==
  IF raw = <<>> \/ Len(filtered) >= OprLimit THEN filtered
  ELSE LET r == Head(raw)
           url == toHomepage(r.link)
           h == hostname(url)
       IN IF r.title = <<>>
            THEN OprFilter(Tail(raw), seen, filtered)
          ELSE IF h = <<>> \/ isBlockedHost(h)
            THEN OprFilter(Tail(raw), seen, filtered)
          ELSE IF etld1(url) \in seen
            THEN OprFilter(Tail(raw), seen, filtered)
          ELSE OprFilter(Tail(raw), seen \cup {etld1(url)},
                         Append(filtered, OprItem(r)))

OprReturnValue(acc) ==
  IF Len(acc.all) = 0
    THEN [items |-> <<>>, error |-> Error("No websites found on the internet")]
  ELSE IF Len(OprFilter(acc.all, {}, <<>>)) = 0
    THEN [items |-> <<>>, error |-> Error("Found websites but they were filtered out")]
  ELSE [items |-> OprFilter(acc.all, {}, <<>>), error |-> NoError]


(***************************************************************************)
(* Scoring.  Scores are integers; a 0-1 value of a service is kept in      *)
(* hundredths, so `value * 100` is the number itself.                      *)
(***************************************************************************)
\* Math.round of n/100 for the totals: round half up
Round100(n) == (n + 50) \div 100

\* Math.round(search*0.40 + performance*0.25 + authority*0.15
\*            + freshness*0.10 + usability*0.10)
WeightedTotal(c) ==
  Round100(c.search * 40 + c.performance * 25 + c.authority * 15
           + c.freshness * 10 + c.usability * 10)

Components(s, p, a, f, u) ==
  [search |-> s, performance |-> p, authority |-> a, freshness |-> f,
   usability |-> u]

\* `const freshnessScore = 75`
FreshnessDefault == 75

\* ---- the PageSpeed service -------------------------------------------
\* responses of the PageSpeed call: the request fails, is aborted by the
\* 15 s AbortController, loses the race against the scorer's own timer,
\* answers non-2xx, answers 200 with an error body, or answers with a
\* lighthouse score (has = FALSE: the score is missing from the payload)
PsiResponses ==
  { [kind |-> k, has |-> FALSE, score |-> 0] :
      k \in {"neterr", "abort", "racetimeout", "http", "apierror", "ok"} }
  \cup { [kind |-> "ok", has |-> TRUE, score |-> v] : v \in {80, 150} }

Clamp(lo, hi, v) == Max(lo, Min(hi, v))

\* a catch block that answers a neutral 0.5 instead of 0
getPerformanceScoreNeutral(resp) ==
  IF resp.kind = "ok"
    THEN [performanceScore |-> Clamp(0, 100, IF resp.has THEN resp.score ELSE 0),
          error |-> NoError]
    ELSE [performanceScore |-> 50, error |-> Error(resp.kind)]

\* a catch block that answers a neutral 0.5 when the request was aborted
\* by the timer, and 0 for the other failures
getPerformanceScoreAbortNeutral(resp) ==
  IF resp.kind = "ok"
    THEN [performanceScore |-> Clamp(0, 100, IF resp.has THEN resp.score ELSE 0),
          error |-> NoError]
    ELSE [performanceScore |-> IF resp.kind = "abort" THEN 50 ELSE 0,
          error |-> Error(resp.kind)]

\* getPerformanceScore of the pagespeed service: never throws
getPerformanceScore(resp) ==
  IF resp.kind = "ok"
    THEN [performanceScore |-> Clamp(0, 100, IF resp.has THEN resp.score ELSE 0),
          error |-> NoError]
    ELSE [performanceScore |-> 0, error |-> Error(resp.kind)]

\* getPerformanceScore of the production route: throws on a failed call,
\* never looks at an error body, does not clamp
getPerformanceScorePage(resp) ==
  IF resp.kind \in {"neterr", "abort", "racetimeout", "http"}
    THEN [threw |-> TRUE, performanceScore |-> 0]
    ELSE [threw |-> FALSE,
          performanceScore |-> IF resp.has THEN resp.score ELSE 0]

\* ---- the Open PageRank service ---------------------------------------
\* page_rank_decimal is kept in tenths of a rank point (0..10 -> 0..100),
\* so clamp(pageRank / 10, 0, 1) * 100 is clamp(tenths, 0, 100);
\* "status": status_code # 200; has = FALSE: no entry for the domain
OprResponses ==
  { [kind |-> k, has |-> FALSE, rank |-> 0] :
      k \in {"neterr", "abort", "racetimeout", "http", "status", "ok"} }
  \cup { [kind |-> "ok", has |-> TRUE, rank |-> v] : v \in {60, 120} }

\* getAuthorityScore of the open-pagerank service: never throws
getAuthorityScore(resp) ==
  IF resp.kind = "ok"
    THEN [authorityScore |-> IF resp.has THEN Clamp(0, 100, resp.rank) ELSE 0,
          error |-> NoError]
    ELSE [authorityScore |-> 0, error |-> Error(resp.kind)]

\* getAuthorityScore of the production route: throws on a failed call
getAuthorityScorePage(resp) ==
  IF resp.kind \in {"neterr", "abort", "racetimeout", "http"}
    THEN [threw |-> TRUE, authorityScore |-> 0]
    ELSE [threw |-> FALSE,
          authorityScore |-> Clamp(0, 100, IF resp.has THEN resp.rank ELSE 0)]

\* ---- the site fetch ---------------------------------------------------
\* outcome of fetching the page of an origin: the fetch fails, the 10 s
\* timer of the scorer wins the race, or the page arrives, with a title and
\* a meta description or without them (<<>> when absent)
SiteResponses ==
  { [kind |-> k, title |-> <<>>, description |-> <<>>] :
      k \in {"fail", "racetimeout"} }
  \cup { [kind |-> "ok", title |-> <<>>, description |-> <<>>],
         [kind |-> "ok", title |-> <<"Title">>, description |-> <<"Text">>] }

\* analyzeSite of the scoring service: a failed page fetch is caught and
\* gives a null title; the analysis it returns has a metaDescription but no
\* description, and no usabilityScore
analyzeSiteService(resp) ==
  IF resp.kind = "racetimeout"
    THEN [threw |-> TRUE, title |-> <<>>, description |-> <<>>,
          usabilityScore |-> 0]
    ELSE [threw |-> FALSE, title |-> resp.title, description |-> <<>>,
          usabilityScore |-> 0]

\* analyzeSite of the production route: usability from the scheme alone
analyzeSitePage(origin, resp) ==
  IF resp.kind # "ok"
    THEN [threw |-> TRUE, title |-> <<>>, description |-> <<>>,
          usabilityScore |-> 0]
    ELSE [threw |-> FALSE, title |-> resp.title,
          description |-> resp.description,
          usabilityScore |-> IF origin.scheme = "https" THEN 80 ELSE 40]

HostTitle(l) == l.host
HostDescription(l) == <<"Website for">> \o l.host

\* ---- scoreSite (scoring service) ---------------------------------------
\* psiOk, oprOk, siteOk: set after the await of a try block, so true
\* unless the race rejected; the fetchers do not reject, only the timer does
scoreSiteFlags(site, psi, opr) ==
  [siteOk |-> ~analyzeSiteService(site).threw,
   psiOk |-> psi.kind # "racetimeout",
   oprOk |-> opr.kind # "racetimeout"]

\* the three try blocks, then the components and the weighted total
scoreSite(origin, searchRank, site, psi, opr) ==
  LET siteInfo == analyzeSiteService(site)
      siteOk == scoreSiteFlags(site, psi, opr).siteOk
      psiOk == scoreSiteFlags(site, psi, opr).psiOk
      oprOk == scoreSiteFlags(site, psi, opr).oprOk
      usabilityScore == IF siteOk THEN siteInfo.usabilityScore * 100 ELSE 0
      performanceScore ==
        IF psiOk THEN getPerformanceScore(psi).performanceScore ELSE 0
      authorityScore ==
        IF oprOk THEN getAuthorityScore(opr).authorityScore ELSE 0
      searchScore == Max(0, 100 - (searchRank - 1) * 10)
      components == Components(searchScore, performanceScore, authorityScore,
                               FreshnessDefault, usabilityScore)
  IN [url |-> origin,
      title |-> IF siteOk /\ siteInfo.title # <<>> THEN siteInfo.title
                ELSE HostTitle(origin),
      description |-> IF siteOk /\ siteInfo.description # <<>>
                      THEN siteInfo.description ELSE HostDescription(origin),
      score |-> WeightedTotal(components),
      components |-> components]

\* a substitute record whose search score counts from the start of the
\* batch instead of the start of the list
scoreSiteFallbackInBatch(origin, i, index) ==
  [url |-> origin,
   title |-> HostTitle(origin),
   description |-> HostDescription(origin),
   score |-> 30,
   components |-> Components(Max(0, 100 - index * 10), 0, 0, 50, 0)]

\* the record the .catch of scoreMultipleSites substitutes when scoreSite
\* rejects; i is the batch start and index the position in the batch
scoreSiteFallback(origin, i, index) ==
  [url |-> origin,
   title |-> HostTitle(origin),
   description |-> HostDescription(origin),
   score |-> 30,
   components |-> Components(Max(0, 100 - (i + index) * 10), 0, 0, 50, 0)]

\* `const batchSize = 3`
BatchSize == 3

\* ---- scoreSites (production route) -------------------------------------
\* one iteration of the sequential loop, for the origin at index i
scoreSitesOne(origin, i, site, psi, opr) ==
  LET siteInfo == analyzeSitePage(origin, site)
      psiResult == getPerformanceScorePage(psi)
      oprResult == getAuthorityScorePage(opr)
      components ==
        Components(Max(0, 100 - i * 10),
                   IF psiResult.threw THEN 0 ELSE psiResult.performanceScore,
                   IF oprResult.threw THEN 0 ELSE oprResult.authorityScore,
                   FreshnessDefault,
                   IF siteInfo.threw THEN 0 ELSE siteInfo.usabilityScore)
  IN [rank |-> i + 1,
      site |-> [url |-> origin,
                title |-> IF ~siteInfo.threw /\ siteInfo.title # <<>>
                          THEN siteInfo.title ELSE HostTitle(origin),
                description |-> IF ~siteInfo.threw /\ siteInfo.description # <<>>
                                THEN siteInfo.description
                                ELSE HostDescription(origin),
                domain |-> ReplaceFirstWww(origin.host)],
      score |-> WeightedTotal(components),
      components |-> components]

\* ---- sorting and ranking -----------------------------------------------
\* an insertion that puts a record before the records of equal score
RECURSIVE InsertBeforeEqual(_, _)
InsertBeforeEqual(sorted, r) ==
  IF sorted = <<>> THEN <<r>>
  ELSE IF Head(sorted).score > r.score
    THEN <<Head(sorted)>> \o InsertBeforeEqual(Tail(sorted), r)
    ELSE <<r>> \o sorted

\* Array.prototype.sort((a, b) => b.score - a.score): stable, descending
RECURSIVE InsertByScore(_, _)
InsertByScore(sorted, r) ==
  IF sorted = <<>> THEN <<r>>
  ELSE IF Head(sorted).score >= r.score
    THEN <<Head(sorted)>> \o InsertByScore(Tail(sorted), r)
    ELSE <<r>> \o sorted

RECURSIVE SortByScore(_)
SortByScore(rs) ==
  IF rs = <<>> THEN <<>>
  ELSE InsertByScore(SortByScore(SubSeq(rs, 1, Len(rs) - 1)), rs[Len(rs)])

\* the ranks given before the sort, left as they are
RerankStale(rs) == rs

\* `rank: index + 1` after the sort
Rerank(rs) == [k \in 1..Len(rs) |-> [rs[k] EXCEPT !.rank = k]]

\* ---- the inline scoring of the live route ------------------------------
\* Math.random() in thousandths; Math.floor(Math.random() * n)
RandomValues == {0, 999}
RandFloor(r, n) == (r * n) \div 1000
RandomDraws ==
  [search : RandomValues, performance : RandomValues, authority : RandomValues,
   freshness : RandomValues, usability : RandomValues]

\* body of the try block of the map callback, for the item at `index`
routeScoreItem(item, index, rnd) ==
  LET components ==
        Components(Max(70, 100 - index * 8 + RandFloor(rnd.search, 15)),
                   Max(50, 85 - RandFloor(rnd.performance, 30)),
                   Max(40, 90 - index * 6 + RandFloor(rnd.authority, 20)),
                   Max(60, 80 - RandFloor(rnd.freshness, 25)),
                   Max(70, 85 - RandFloor(rnd.usability, 20)))
  IN [rank |-> index + 1,
      site |-> [url |-> item.url, title |-> item.title,
                description |-> item.description,
                domain |-> ReplaceFirstWww(item.url.host)],
      score |-> WeightedTotal(components),
      components |-> components]

\* the record of the catch block of the map callback
routeScoreItemFallback(item, index) ==
  [rank |-> index + 1,
   site |-> [url |-> item.url,
             title |-> IF item.title # <<>> THEN item.title
                       ELSE HostTitle(item.url),
             description |-> IF item.description # <<>> THEN item.description
                             ELSE <<"Website for niche">>,
             domain |-> ReplaceFirstWww(item.url.host)],
   score |-> 50,
   components |-> Components(50, 0, 0, 50, 0)]

(***************************************************************************)
(* State                                                                   *)
(***************************************************************************)
VARIABLES
  dImpl,      \* discovery: which version runs ("cse", "page", "opr", "-")
  dProvider,  \* discovery: provider chosen from the environment ("opr")
  dQ,         \* discovery: niche.trim() is not empty
  dPc,        \* discovery: "loop" while querying, "done" once returned
  dIdx,       \* discovery: number of query variants tried so far
  dAcc,       \* discovery: [all |-> allResults, lastError |-> lastError]
  dOut,       \* discovery: the returned { items, error }
  dCalls,     \* discovery: the provider calls made so far, in call order
  sImpl,      \* scoring: which scorer runs ("multi", "page", "route", "-")
  sCands,     \* scoring: the ordered candidates handed to the scorer
  sPc,        \* scoring: "run" while scoring, "done" once returned
  sI,         \* scoring: loop index i (0-based; batch start for "multi")
  sBatch,     \* scoring: per candidate, <<>> or <<result>> of the batch
  sResults,   \* scoring: the results array built so far
  sFetch,     \* scoring: per candidate, which of its calls failed
  sOut,       \* scoring: the returned list
  sTwin,      \* scoring: per candidate, <<>> or <<its record in a second run
              \*          that gets the same answers>>
  sOutTwin,   \* scoring: the list the second run returns
  sLog,       \* scoring: what happened so far: start / finish of a candidate, pause
  fImpl,      \* one candidate: which scorer analyses it ("multi", "page", "-")
  fOrigin,    \* one candidate: its origin
  fRank,      \* one candidate: its 1-based position among the candidates
  fState,     \* one candidate: per fetcher "idle", "running" or "settled"
  fAnswer,    \* one candidate: per fetcher <<>> or <<what the call gave>>
  fOut,       \* one candidate: <<>> or <<the scored record>>
  impl,       \* route: which route file serves /api/generate ("route", "page", "-")
  now,        \* route: Date.now(), in milliseconds
  rateLimitMap, \* route: ip -> { count, resetTime }
  runStorage, \* route: runId -> runData (the in-memory run store)
  resp,       \* route: the response of the last request
  lastReq,    \* route: what the last request was and what it set off
  accepted,   \* route: ip -> the times, within the last 60 s, at which its
              \*        submissions passed the limit
  gPc,        \* database route: where POST stands ("idle" between requests)
  gRuns,      \* database route: the run table, run id -> status
  gUrls,      \* database route: urls still to analyse
  gAnalyses,  \* database route: siteAnalyses.length
  gResp,      \* database route: the response of the last POST
  gSeen,      \* database route: the answer of the last GET
  lOn,        \* limiters: the two variants are fed the same requests
  lNow,       \* limiters: Date.now()
  lLocal,     \* limiters: rateLimitMap of the route-local variant
  lPurging,   \* limiters: rateLimitMap of the variant that cleans up first
  lLast       \* limiters: the last request and the two decisions on it

dvars == <<dImpl, dProvider, dQ, dPc, dIdx, dAcc, dOut, dCalls>>
svars ==
  <<sImpl, sCands, sPc, sI, sBatch, sResults, sFetch, sOut, sTwin, sOutTwin, sLog>>
fvars == <<fImpl, fOrigin, fRank, fState, fAnswer, fOut>>
gvars == <<gPc, gRuns, gUrls, gAnalyses, gResp, gSeen>>
lvars == <<lOn, lNow, lLocal, lPurging, lLast>>
rvars == <<impl, now, rateLimitMap, runStorage, resp, lastReq, accepted>>

NoOut == [items |-> <<>>, error |-> NoError]

\* a provider call as it was made: query variant, page, and its answer
Call(variant, page, o) ==
  [variant |-> variant, page |-> page, ok |-> o.ok, items |-> o.items]
\* both pages asked for, whatever the first one gave
VariantCallsBothPages(variant, o1, o2) ==
  <<Call(variant, 1, o1), Call(variant, 2, o2)>>

\* searchGoogle(query, 1), and searchGoogle(query, 11) only after a first
\* page with results
VariantCalls(variant, o1, o2) ==
  IF o1.ok /\ Len(o1.items) > 0
    THEN <<Call(variant, 1, o1), Call(variant, 2, o2)>>
    ELSE <<Call(variant, 1, o1)>>
\* `await new Promise(resolve => setTimeout(resolve, 200))` at the end of
\* the try block of an iteration (500 ms in the provider-based discovery):
\* whether the loop waited after call k of the log.  The google-search
\* service waits after a variant whose first page answered, the last query
\* excepted; the production route after a variant none of whose calls
\* failed; the provider-based discovery after a query that answered.
Delayed(k) ==
  LET c == dCalls[k]
      ofVariant == { j \in 1..Len(dCalls) : dCalls[j].variant = c.variant }
  IN /\ \A j \in ofVariant : j <= k
     /\ CASE dImpl = "cse" ->
               /\ \E j \in ofVariant : dCalls[j].page = 1 /\ dCalls[j].ok
               /\ c.variant < CseQueries
          [] dImpl = "page" -> \A j \in ofVariant : dCalls[j].ok
          [] OTHER -> c.ok

EmptyAcc == [all |-> <<>>, lastError |-> ""]

(***************************************************************************)
(* Discovery, one step per query variant                                   *)
(***************************************************************************)
DiscoverInit ==
  /\ dImpl \in {"cse", "page", "opr"}
  /\ dProvider \in IF dImpl = "opr" THEN {"google", "brave", "none"} ELSE {"google"}
  /\ dQ \in IF dImpl = "opr" THEN BOOLEAN ELSE {TRUE}
  /\ dPc = "loop"
  /\ dIdx = 0
  /\ dAcc = EmptyAcc
  /\ dOut = NoOut
  /\ dCalls = <<>>

DiscoverIdle ==
  /\ dImpl = "-"
  /\ dProvider = "google"
  /\ dQ = TRUE
  /\ dPc = "done"
  /\ dIdx = 0
  /\ dAcc = EmptyAcc
  /\ dOut = NoOut
  /\ dCalls = <<>>

CseTryVariant ==
  /\ dImpl = "cse" /\ dPc = "loop"
  /\ dIdx < Min(CseQueries, MaxVariants)
  /\ \E o1 \in CallOutcomes, o2 \in SecondPageOutcomes :
       /\ dAcc' = CseVariant(dAcc, o1, o2)
       /\ dCalls' = dCalls \o VariantCalls(dIdx + 1, o1, o2)
  /\ dIdx' = dIdx + 1
  /\ UNCHANGED <<dImpl, dProvider, dQ, dPc, dOut>>

CseReturn ==
  /\ dImpl = "cse" /\ dPc = "loop"
  /\ dIdx = Min(CseQueries, MaxVariants)
  /\ dOut' = CseReturnValue(dAcc)
  /\ dPc' = "done"
  /\ UNCHANGED <<dImpl, dProvider, dQ, dIdx, dAcc, dCalls>>

PageTryVariant ==
  /\ dImpl = "page" /\ dPc = "loop"
  /\ dIdx < Min(PageQueries, MaxVariants)
  /\ \E o1 \in CallOutcomes, o2 \in SecondPageOutcomes :
       /\ dAcc' = PageVariant(dAcc, o1, o2)
       /\ dCalls' = dCalls \o VariantCalls(dIdx + 1, o1, o2)
  /\ dIdx' = dIdx + 1
  /\ UNCHANGED <<dImpl, dProvider, dQ, dPc, dOut>>

PageReturn ==
  /\ dImpl = "page" /\ dPc = "loop"
  /\ dIdx = Min(PageQueries, MaxVariants)
  /\ dOut' = PageReturnValue(dAcc)
  /\ dPc' = "done"
  /\ UNCHANGED <<dImpl, dProvider, dQ, dIdx, dAcc, dCalls>>

OprQueries == IF dProvider = "brave" THEN BraveQueries ELSE GoogleCseQueries
OprEnough == IF dProvider = "brave" THEN BraveEnough ELSE GoogleCseEnough
OprLoopOver ==
  dIdx = Min(OprQueries, MaxVariants) \/ Len(dAcc.all) >= OprEnough

\* `if (!q) return ...` and the missing API keys
OprNoSearch ==
  /\ dImpl = "opr" /\ dPc = "loop" /\ dIdx = 0
  /\ ~dQ \/ dProvider = "none"
  /\ dOut' = [items |-> <<>>,
              error |-> Error(IF ~dQ THEN "Empty query"
                              ELSE "No search API configured")]
  /\ dPc' = "done"
  /\ UNCHANGED <<dImpl, dProvider, dQ, dIdx, dAcc, dCalls>>

OprQuery ==
  /\ dImpl = "opr" /\ dPc = "loop"
  /\ dQ /\ dProvider # "none"
  /\ ~OprLoopOver
  /\ \E o \in CallOutcomes :
       /\ dAcc' = OprQueryStep(dAcc, o)
       /\ dCalls' = Append(dCalls, Call(dIdx + 1, 1, o))
  /\ dIdx' = dIdx + 1
  /\ UNCHANGED <<dImpl, dProvider, dQ, dPc, dOut>>

OprReturn ==
  /\ dImpl = "opr" /\ dPc = "loop"
  /\ dQ /\ dProvider # "none"
  /\ OprLoopOver
  /\ dOut' = OprReturnValue(dAcc)
  /\ dPc' = "done"
  /\ UNCHANGED <<dImpl, dProvider, dQ, dIdx, dAcc, dCalls>>

\* withTimeout(provider.search(q), 30000) rejects before the search ends
OprTimeout ==
  /\ dImpl = "opr" /\ dPc = "loop"
  /\ dQ /\ dProvider # "none"
  /\ dOut' = [items |-> <<>>, error |-> Error("Search timed out")]
  /\ dPc' = "done"
  /\ UNCHANGED <<dImpl, dProvider, dQ, dIdx, dAcc, dCalls>>

(***************************************************************************)
(* Discovery over full result pages: the provider answers every call, and  *)
(* the accumulated results are many enough for the limits of the           *)
(* deduplication to matter.  Only the part after the query loop is left.   *)
(***************************************************************************)
\* `apiUrl.searchParams.set('num', '10')`: results per page
PageSize == 10

\* number of distinct sites among the accumulated results
MaxSites == 17

SiteNames ==
  << "s01", "s02", "s03", "s04", "s05", "s06", "s07", "s08", "s09", "s10",
     "s11", "s12", "s13", "s14", "s15", "s16", "s17", "s18", "s19", "s20" >>
SiteLink(k) == Url("https", <<SiteNames[k], "com">>, 1, FALSE)
SiteLinkAlt(k) == Url("https", <<SiteNames[k], "com">>, 2, TRUE)
SkippedLink == Url("https", <<"www", "youtube", "com">>, 1, FALSE)

\* results of the sites k..n in order; with dup, a second page of each of
\* the first two sites follows its first one
RECURSIVE SiteResults(_, _, _)
SiteResults(k, n, dup) ==
  IF k > n THEN <<>>
  ELSE <<Raw(SiteLink(k), <<"T">>, <<"S">>)>>
       \o (IF dup /\ k <= 2 THEN <<Raw(SiteLinkAlt(k), <<"T">>, <<"S">>)>>
           ELSE <<>>)
       \o SiteResults(k + 1, n, dup)

\* the accumulated results: n sites, with junk a skip-listed result first
RawList(n, dup, junk) ==
  (IF junk THEN <<Raw(SkippedLink, <<"T">>, <<"S">>)>> ELSE <<>>)
    \o SiteResults(1, n, dup)

\* the j-th page of PageSize results of a list
PageOf(list, j) ==
  IF PageSize * (j - 1) >= Len(list) THEN <<>>
  ELSE SubSeq(list, PageSize * (j - 1) + 1, Min(PageSize * j, Len(list)))

AnswerOf(list, j) == [ok |-> TRUE, items |-> PageOf(list, j)]

\* the calls that accumulated the list: two pages per query variant
RECURSIVE PagedCalls(_, _, _)
PagedCalls(list, v, nv) ==
  IF v > nv THEN <<>>
  ELSE VariantCalls(v, AnswerOf(list, 2 * v - 1), AnswerOf(list, 2 * v))
       \o PagedCalls(list, v + 1, nv)

\* the same for the provider based discovery: one page per query
SinglePageCalls(list, nv) == [v \in 1..nv |-> Call(v, 1, AnswerOf(list, v))]

QueriesOf(i) ==
  IF i = "cse" THEN Min(CseQueries, MaxVariants)
  ELSE IF i = "page" THEN Min(PageQueries, MaxVariants)
  ELSE Min(GoogleCseQueries, MaxVariants)

\* the state at the end of the query loop
FullPagesInit ==
  /\ dImpl \in {"cse", "page", "opr"}
  /\ dProvider = "google"
  /\ dQ = TRUE
  /\ dPc = "loop"
  /\ dIdx = QueriesOf(dImpl)
  /\ \E n \in 0..Min(MaxSites, Len(SiteNames)), dup \in BOOLEAN, junk \in BOOLEAN :
       LET list == RawList(n, dup, junk)
       IN /\ Len(list) <= PageSize * QueriesOf(dImpl)
                            * (IF dImpl = "opr" THEN 1 ELSE 2)
          /\ dAcc = [all |-> list, lastError |-> ""]
          /\ dCalls = IF dImpl = "opr"
                        THEN SinglePageCalls(list, QueriesOf(dImpl))
                        ELSE PagedCalls(list, 1, QueriesOf(dImpl))
  /\ dOut = NoOut

(***************************************************************************)
(* Scoring, one step per candidate                                         *)
(***************************************************************************)
\* number of candidates handed to the scorer
MaxCandidates == 2

\* candidates as discovery hands them over: pairwise distinct origins
OriginPool ==
  << Url("https", <<"a", "com">>, 0, FALSE),
     Url("http", <<"a", "com">>, 0, FALSE),
     Url("https", <<"www", "b", "org">>, 0, FALSE),
     Url("https", <<"c", "net">>, 0, FALSE),
     Url("http", <<"d", "io">>, 0, FALSE),
     Url("https", <<"e", "dev">>, 0, FALSE),
     Url("https", <<"f", "app">>, 0, FALSE),
     Url("https", <<"g", "co">>, 0, FALSE),
     Url("https", <<"h", "me">>, 0, FALSE) >>

ItemOf(o) == [url |-> o, title |-> <<"T">>, description |-> <<"S">>]

Failed(answer) == answer.kind # "ok"
NotFetched == [done |-> FALSE, site |-> FALSE, psi |-> FALSE, opr |-> FALSE,
               threw |-> FALSE]
Fetched(site, psi, opr, threw) ==
  [done |-> TRUE, site |-> Failed(site), psi |-> Failed(psi),
   opr |-> Failed(opr), threw |-> threw]

ScoreInit ==
  /\ sImpl \in {"multi", "page", "route"}
  /\ \E n \in 1..Min(MaxCandidates, Len(OriginPool)) :
       /\ sCands = IF sImpl = "route"
                     THEN [k \in 1..n |-> ItemOf(OriginPool[k])]
                     ELSE [k \in 1..n |-> OriginPool[k]]
       /\ sBatch = [k \in 1..n |-> <<>>]
       /\ sFetch = [k \in 1..n |-> NotFetched]
       /\ sTwin = [k \in 1..n |-> <<>>]
  /\ sPc = "run"
  /\ sI = 0
  /\ sResults = <<>>
  /\ sOut = <<>>
  /\ sOutTwin = <<>>
  /\ sLog = <<>>

\* number of candidates of the long lists
MaxScored == 7

\* a scorer handed more candidates than one batch holds
LongScoreInit ==
  /\ sImpl \in {"multi", "page", "route"}
  /\ \E n \in (MaxCandidates + 1)..Min(MaxScored, Len(OriginPool)) :
       /\ sCands = IF sImpl = "route"
                     THEN [k \in 1..n |-> ItemOf(OriginPool[k])]
                     ELSE [k \in 1..n |-> OriginPool[k]]
       /\ sBatch = [k \in 1..n |-> <<>>]
       /\ sFetch = [k \in 1..n |-> NotFetched]
       /\ sTwin = [k \in 1..n |-> <<>>]
  /\ sPc = "run"
  /\ sI = 0
  /\ sResults = <<>>
  /\ sOut = <<>>
  /\ sOutTwin = <<>>
  /\ sLog = <<>>

ScoreIdle ==
  /\ sImpl = "-"
  /\ sCands = <<>>
  /\ sBatch = <<>>
  /\ sFetch = <<>>
  /\ sTwin = <<>>
  /\ sPc = "done"
  /\ sI = 0
  /\ sResults = <<>>
  /\ sOut = <<>>
  /\ sOutTwin = <<>>
  /\ sLog = <<>>

\* indices (1-based) of the batch that starts at i
BatchOf(i, n) == { k \in 1..n : i < k /\ k <= i + BatchSize }

Event(ev, k) == [ev |-> ev, k |-> k]
Started(k) == \E e \in 1..Len(sLog) : sLog[e] = Event("start", k)

\* the answers the scorer is followed for: all of them for short candidate
\* lists, one answer per service for lists that fill a batch
LongList == Len(sCands) >= BatchSize
SiteAnswers ==
  IF LongList THEN {a \in SiteResponses : a.title # <<>>} ELSE SiteResponses
PsiAnswers ==
  IF LongList THEN {a \in PsiResponses : a.kind = "http"} ELSE PsiResponses
OprAnswers ==
  IF LongList THEN {a \in OprResponses : a.has /\ a.rank <= 100}
  ELSE OprResponses
DrawAnswers ==
  IF LongList THEN {d \in RandomDraws : \A f \in DOMAIN d : d[f] = 0}
  ELSE RandomDraws

\* what Math.random() gives in the second run
TwinDraws ==
  IF LongList THEN DrawAnswers
  ELSE {d \in RandomDraws : \A f \in DOMAIN d : d[f] = d.search}

\* the records of the second run, in candidate order
TwinResults == [k \in 1..Len(sCands) |-> sTwin[k][1]]

\* batch.map(...): scoreSite is called for every origin of the batch, in
\* order; each call runs up to its first await
MultiBatchStart ==
  /\ sImpl = "multi" /\ sPc = "run"
  /\ sI < Len(sCands)
  /\ ~Started(sI + 1)
  /\ sLog' = sLog \o [j \in 1..Cardinality(BatchOf(sI, Len(sCands))) |->
                        Event("start", sI + j)]
  /\ UNCHANGED <<sImpl, sCands, sPc, sI, sBatch, sResults, sFetch, sOut,
                 sTwin, sOutTwin>>

\* scoreSite(origin, i + index + 1) of one candidate of the current batch
\* settles; `threw`: an exception escaped scoreSite and .catch took over
MultiScoreSite ==
  /\ sImpl = "multi" /\ sPc = "run"
  /\ \E k \in BatchOf(sI, Len(sCands)) :
       /\ Started(k)
       /\ sBatch[k] = <<>>
       /\ \E site \in SiteAnswers, psi \in PsiAnswers,
             opr \in OprAnswers, threw \in BOOLEAN :
            /\ sBatch' = [sBatch EXCEPT ![k] =
                  << IF threw THEN scoreSiteFallback(sCands[k], sI, k - sI - 1)
                     ELSE scoreSite(sCands[k], k, site, psi, opr) >>]
            /\ sFetch' = [sFetch EXCEPT ![k] = Fetched(site, psi, opr, threw)]
       /\ sTwin' = [sTwin EXCEPT ![k] = sBatch'[k]]
       /\ sLog' = Append(sLog, Event("finish", k))
  /\ UNCHANGED <<sImpl, sCands, sPc, sI, sResults, sOut, sOutTwin>>

\* Promise.all of the batch resolves: results.push(...batchResults), then
\* the one second delay when another batch follows
MultiBatchJoin ==
  /\ sImpl = "multi" /\ sPc = "run"
  /\ sI < Len(sCands)
  /\ \A k \in BatchOf(sI, Len(sCands)) : sBatch[k] # <<>>
  /\ sResults' = sResults \o
        [j \in 1..Cardinality(BatchOf(sI, Len(sCands))) |-> sBatch[sI + j][1]]
  /\ sI' = sI + BatchSize
  /\ sLog' = IF sI + BatchSize < Len(sCands)
               THEN Append(sLog, Event("pause", 0)) ELSE sLog
  /\ UNCHANGED <<sImpl, sCands, sPc, sBatch, sFetch, sOut, sTwin, sOutTwin>>

MultiReturn ==
  /\ sImpl = "multi" /\ sPc = "run"
  /\ sI >= Len(sCands)
  /\ sOut' = sResults
  /\ sOutTwin' = TwinResults
  /\ sPc' = "done"
  /\ UNCHANGED <<sImpl, sCands, sI, sBatch, sResults, sFetch, sTwin, sLog>>

\* one iteration of the for-loop of scoreSites
PageScoreNext ==
  /\ sImpl = "page" /\ sPc = "run"
  /\ sI < Len(sCands)
  /\ \E site \in SiteAnswers, psi \in PsiAnswers, opr \in OprAnswers :
       /\ sResults' = Append(sResults,
                             scoreSitesOne(sCands[sI + 1], sI, site, psi, opr))
       /\ sFetch' = [sFetch EXCEPT ![sI + 1] = Fetched(site, psi, opr, FALSE)]
       /\ sTwin' = [sTwin EXCEPT ![sI + 1] =
                      <<scoreSitesOne(sCands[sI + 1], sI, site, psi, opr)>>]
  /\ sI' = sI + 1
  /\ sLog' = sLog \o <<Event("start", sI + 1), Event("finish", sI + 1)>>
  /\ UNCHANGED <<sImpl, sCands, sPc, sBatch, sOut, sOutTwin>>

\* `return results.sort(...).map(...)`
PageSortReturn ==
  /\ sImpl = "page" /\ sPc = "run"
  /\ sI = Len(sCands)
  /\ sOut' = Rerank(SortByScore(sResults))
  /\ sOutTwin' = Rerank(SortByScore(TwinResults))
  /\ sPc' = "done"
  /\ UNCHANGED <<sImpl, sCands, sI, sBatch, sResults, sFetch, sTwin, sLog>>

\* the map callback of the live route for the next item (it has no await,
\* so the callbacks run one after the other in index order)
RouteScoreNext ==
  /\ sImpl = "route" /\ sPc = "run"
  /\ sI < Len(sCands)
  /\ \E rnd \in DrawAnswers, threw \in BOOLEAN :
       /\ sResults' = Append(sResults,
                             IF threw THEN routeScoreItemFallback(sCands[sI + 1], sI)
                             ELSE routeScoreItem(sCands[sI + 1], sI, rnd))
       /\ sFetch' = [sFetch EXCEPT ![sI + 1] =
                       [done |-> TRUE, site |-> FALSE, psi |-> FALSE,
                        opr |-> FALSE, threw |-> threw]]
       /\ \E rnd2 \in TwinDraws :
            sTwin' = [sTwin EXCEPT ![sI + 1] =
                        << IF threw THEN routeScoreItemFallback(sCands[sI + 1], sI)
                           ELSE routeScoreItem(sCands[sI + 1], sI, rnd2) >>]
  /\ sI' = sI + 1
  /\ sLog' = sLog \o <<Event("start", sI + 1), Event("finish", sI + 1)>>
  /\ UNCHANGED <<sImpl, sCands, sPc, sBatch, sOut, sOutTwin>>

\* scoredSites.sort(...) and the forEach that rewrites rank
RouteSortRank ==
  /\ sImpl = "route" /\ sPc = "run"
  /\ sI = Len(sCands)
  /\ sOut' = Rerank(SortByScore(sResults))
  /\ sOutTwin' = Rerank(SortByScore(TwinResults))
  /\ sPc' = "done"
  /\ UNCHANGED <<sImpl, sCands, sI, sBatch, sResults, sFetch, sTwin, sLog>>

(***************************************************************************)
(* The analysis of one candidate, call by call: scoreSite of the scoring   *)
(* service ("multi") and the loop body of scoreSites ("page").  A fetcher  *)
(* is started when its call expression is evaluated and is settled when    *)
(* the awaited Promise.race resolves or rejects.                           *)
(***************************************************************************)
Fetchers == {"site", "psi", "opr"}

FetchInit ==
  /\ fImpl \in {"multi", "page"}
  /\ \E k \in 1..Min(MaxCandidates, Len(OriginPool)) :
       fOrigin = OriginPool[k] /\ fRank = k
  /\ fState = [f \in Fetchers |-> "idle"]
  /\ fAnswer = [f \in Fetchers |-> <<>>]
  /\ fOut = <<>>

FetchIdle ==
  /\ fImpl = "-"
  /\ fOrigin = OriginPool[1]
  /\ fRank = 1
  /\ fState = [f \in Fetchers |-> "idle"]
  /\ fAnswer = [f \in Fetchers |-> <<>>]
  /\ fOut = <<>>

\* the call expression of a fetcher is evaluated, with its timer
StartFetch(f) ==
  /\ fImpl # "-" /\ fOut = <<>>
  /\ fState[f] = "idle"
  /\ fState' = [fState EXCEPT ![f] = "running"]
  /\ UNCHANGED <<fImpl, fOrigin, fRank, fAnswer, fOut>>

\* the awaited race of a fetcher resolves or rejects
SettleFetch(f, answers) ==
  /\ fState[f] = "running"
  /\ \E a \in answers :
       fAnswer' = [fAnswer EXCEPT ![f] = <<a>>]
  /\ fState' = [fState EXCEPT ![f] = "settled"]
  /\ UNCHANGED <<fImpl, fOrigin, fRank, fOut>>

\* first try block: await Promise.race([analyzeSite(origin), timer])
StartSite == StartFetch("site")
SettleSite == SettleFetch("site", SiteResponses)

\* second try block, reached when the first one is over
StartPsi == fState["site"] = "settled" /\ StartFetch("psi")
SettlePsi == SettleFetch("psi", PsiResponses)

\* third try block, reached when the second one is over
StartOpr == fState["psi"] = "settled" /\ StartFetch("opr")
SettleOpr == SettleFetch("opr", OprResponses)

\* the components, the total and the record, after the third try block
FetchReturn ==
  /\ fImpl # "-" /\ fOut = <<>>
  /\ fState["opr"] = "settled"
  /\ fOut' = << IF fImpl = "multi"
                  THEN scoreSite(fOrigin, fRank, fAnswer["site"][1],
                                 fAnswer["psi"][1], fAnswer["opr"][1])
                  ELSE scoreSitesOne(fOrigin, fRank - 1, fAnswer["site"][1],
                                     fAnswer["psi"][1], fAnswer["opr"][1]) >>
  /\ UNCHANGED <<fImpl, fOrigin, fRank, fState, fAnswer>>

(***************************************************************************)
(* The route handlers                                                      *)
(***************************************************************************)
\* strings of the request body are sequences of characters
Str(c, n) == [k \in 1..n |-> c]
Study == <<"s", "t", "u", "d", "y">>

\* `niche.length > 60`
MaxNicheLength == 60
\* rateLimit(request, 3, 60 * 1000)
RateLimit == 3
WindowMs == 60000

\* the clock advances in steps of TickMs, MaxTicks times
TickMs == WindowMs + 1000
MaxTicks == 1
\* runs the store is followed for
MaxRuns == 1

RECURSIVE TrimLeft(_)
TrimLeft(t) == IF t # <<>> /\ Head(t) = " " THEN TrimLeft(Tail(t)) ELSE t
RECURSIVE TrimRight(_)
TrimRight(t) ==
  IF t # <<>> /\ t[Len(t)] = " " THEN TrimRight(SubSeq(t, 1, Len(t) - 1)) ELSE t
\* String.prototype.trim
Trim(t) == TrimRight(TrimLeft(t))

\* toLowerCase on the characters of the model's alphabet
Lower(c) == IF c = "A" THEN "a" ELSE c
\* text.toLowerCase().trim().replace(/\s+/g, '-').replace(/[^a-z0-9-]/g, '')
RECURSIVE SlugChars(_, _)
SlugChars(t, prevSpace) ==
  IF t = <<>> THEN <<>>
  ELSE IF Head(t) = " "
    THEN (IF prevSpace THEN <<>> ELSE <<"-">>) \o SlugChars(Tail(t), TRUE)
  ELSE IF Head(t) \in {"a", "s", "t", "u", "d", "y", "-"}
    THEN <<Head(t)>> \o SlugChars(Tail(t), FALSE)
  ELSE SlugChars(Tail(t), FALSE)
slugify(t) == SlugChars(Trim([k \in 1..Len(t) |-> Lower(t[k])]), FALSE)

\* the `niche` member of the parsed JSON body; "badjson": request.json()
\* rejects
Body(ty, str, num) == [type |-> ty, str |-> str, num |-> num]
Bodies ==
  { Body("badjson", <<>>, 0),
    Body("undefined", <<>>, 0),
    Body("number", <<>>, 5),
    Body("string", <<>>, 0),
    Body("string", <<" ", " ">>, 0),
    Body("string", <<" ">> \o Str("a", MaxNicheLength) \o <<" ">>, 0),
    Body("string", Str("a", MaxNicheLength + 1), 0),
    Body("string", Str(" ", MaxNicheLength + 1), 0) }

\* `!niche`
Falsy(b) ==
  \/ b.type = "undefined"
  \/ b.type = "number" /\ b.num = 0
  \/ b.type = "string" /\ b.str = <<>>

IPs == {"unknown"}
RunSuffixes == {"k1", "k2"}
\* a run that ends in a catch block stores nothing under its id: one
\* suffix is followed for it
RunSuffixesFor(raised) ==
  IF raised = "none" THEN RunSuffixes ELSE {CHOOSE x \in RunSuffixes : TRUE}
NoRunId == <<>>
\* `run_${Date.now()}_${Math.random().toString(36).substr(2, 9)}`
RunId(t, suffix) == <<t, suffix>>

\* rateLimit of the route files: [allow, map]
rateLimit(map, ip, t, limit, windowMs) ==
  IF ip \notin DOMAIN map
    THEN [allow |-> TRUE,
          map |-> (ip :> [count |-> 1, resetTime |-> t + windowMs]) @@ map]
  ELSE IF t > map[ip].resetTime
    THEN [allow |-> TRUE,
          map |-> [map EXCEPT ![ip] = [count |-> 1, resetTime |-> t + windowMs]]]
  ELSE IF map[ip].count >= limit
    THEN [allow |-> FALSE, map |-> map]
  ELSE [allow |-> TRUE, map |-> [map EXCEPT ![ip].count = @ + 1]]

\* the whole query loop of a discovery, for the outcomes of its calls
RECURSIVE CseAccumulate(_, _)
CseAccumulate(acc, script) ==
  IF script = <<>> THEN acc
  ELSE CseAccumulate(CseVariant(acc, Head(script)[1], Head(script)[2]),
                     Tail(script))
RECURSIVE PageAccumulate(_, _)
PageAccumulate(acc, script) ==
  IF script = <<>> THEN acc
  ELSE PageAccumulate(PageVariant(acc, Head(script)[1], Head(script)[2]),
                      Tail(script))

CallOk(p) == [ok |-> TRUE, items |-> p]
CallFailed == [ok |-> FALSE, items |-> <<>>]
RawOf(l) == Raw(l, <<"T">>, <<"S">>)

\* what the provider answers to the two calls of a query variant, as far
\* as the route model follows it: the same answers for every variant
SubmitVariantOutcomes ==
  { <<CallFailed, CallFailed>>,
    <<CallOk(<<>>), CallFailed>>,
    <<CallOk(<<RawOf(Url("https", <<"www", "youtube", "com">>, 1, FALSE))>>),
      CallOk(<<RawOf(BadLink)>>)>>,
    <<CallOk(<<RawOf(Url("https", <<"a", "com">>, 1, FALSE))>>),
      CallOk(<<RawOf(Url("http", <<"a", "com">>, 0, FALSE))>>)>> }
SubmitScripts(n) ==
  { [k \in 1..Min(n, MaxVariants) |-> o] : o \in SubmitVariantOutcomes }

\* per item: the random draws of the live route, and whether the callback
\* body threw
SubmitDraws ==
  { [rnd |-> [search |-> r, performance |-> r, authority |-> r,
              freshness |-> r, usability |-> r], threw |-> r = 0] :
      r \in {0, 999} }
\* for n items: no callback throws, or the first one does
SubmitDrawSeqs(n) ==
  { [k \in 1..n |-> CHOOSE d \in SubmitDraws : d.threw = (k <= t)] :
      t \in {0, 1} }

\* per origin: the answers of the three services to the production route
SubmitFetches ==
  { [site |-> s, psi |-> p, opr |-> o] :
      s \in {sr \in SiteResponses : sr.title # <<>>},
      p \in {pr \in PsiResponses : pr.kind \in {"http"} \/ pr.score > 100},
      o \in {[kind |-> "ok", has |-> TRUE, rank |-> 60]} }

\* ---- the two rate limiters, fed the same requests ----

\* clients of the limiters, and the steps of their clock
LimiterIPs == {"ip1", "ip2"}
LimiterStepMs == WindowMs \div 2
MaxLimiterSteps == 5

\* a clean-up that also drops the entries whose window ends at t
PurgeAtReset(map, t) ==
  [key \in {k \in DOMAIN map : ~(t >= map[k].resetTime)} |-> map[key]]

\* "Clean up old entries": the entries the loop of lib/rate-limit.ts keeps
Purge(map, t) ==
  [key \in {k \in DOMAIN map : ~(t > map[k].resetTime)} |-> map[key]]

\* rateLimit of lib/rate-limit.ts: the clean-up, then the same steps
rateLimitPurging(map, ip, t, limit, windowMs) ==
  rateLimit(Purge(map, t), ip, t, limit, windowMs)

NoLimiterRequest == [ip |-> "-", local |-> FALSE, purging |-> FALSE]

LimitersIdle ==
  /\ lOn = FALSE
  /\ lNow = 0
  /\ lLocal = << >>
  /\ lPurging = << >>
  /\ lLast = NoLimiterRequest

LimitersInit ==
  /\ lOn = TRUE
  /\ lNow = 0
  /\ lLocal = << >>
  /\ lPurging = << >>
  /\ lLast = NoLimiterRequest

\* Date.now() moves on between two requests
LimiterTick ==
  /\ lOn
  /\ lNow < MaxLimiterSteps * LimiterStepMs
  /\ lNow' = lNow + LimiterStepMs
  /\ UNCHANGED <<lOn, lLocal, lPurging, lLast>>

\* one request of a client, decided by both limiters
LimiterRequest ==
  /\ lOn
  /\ \E ip \in LimiterIPs :
       LET l == rateLimit(lLocal, ip, lNow, RateLimit, WindowMs)
           p == rateLimitPurging(lPurging, ip, lNow, RateLimit, WindowMs)
       IN /\ lLocal' = l.map
          /\ lPurging' = p.map
          /\ lLast' = [ip |-> ip, local |-> l.allow, purging |-> p.allow]
  /\ UNCHANGED <<lOn, lNow>>

\* ---- the database-backed generate route ----

\* runs the run table is followed for, and urls of one search result
MaxDbRuns == 2
MaxDbUrls == 2

DbResponse(status, success, error) ==
  [status |-> status, success |-> success, error |-> error]
NoDbResponse == DbResponse(0, FALSE, "")
\* the outer catch of POST
DbCaught == DbResponse(500, FALSE, "Failed to generate rankings")

DbIdle ==
  /\ gPc = "-"
  /\ gRuns = <<>>
  /\ gUrls = 0
  /\ gAnalyses = 0
  /\ gResp = NoDbResponse
  /\ gSeen = "-"

DbInit ==
  /\ gPc = "idle"
  /\ gRuns = <<>>
  /\ gUrls = 0
  /\ gAnalyses = 0
  /\ gResp = NoDbResponse
  /\ gSeen = "-"

\* the run the POST in progress created
DbRun == Len(gRuns)

\* POST up to prisma.run.create: request.json() or the create may reject
DbPost ==
  /\ gPc = "idle"
  /\ Len(gRuns) < MaxDbRuns
  /\ \E outcome \in {"badjson", "createthrows", "created"} :
       IF outcome = "created"
         THEN /\ gRuns' = Append(gRuns, "RUNNING")
              /\ gPc' = "search"
              /\ gResp' = NoDbResponse
         ELSE /\ gResp' = DbCaught
              /\ UNCHANGED <<gPc, gRuns>>
  /\ UNCHANGED <<gUrls, gAnalyses, gSeen>>

\* prisma.run.update({ data: { status } }) of the run in progress,
\* answering `answer` when it resolves; a rejection reaches the outer catch
DbUpdateAndAnswer(status, answer) ==
  \E throws \in BOOLEAN :
    IF throws
      THEN gResp' = DbCaught /\ UNCHANGED gRuns
      ELSE gResp' = answer /\ gRuns' = [gRuns EXCEPT ![DbRun] = status]

\* searchStudyWebsites and the branch on an empty result
DbSearch ==
  /\ gPc = "search"
  /\ \E throws \in BOOLEAN, found \in 0..MaxDbUrls :
       IF throws
         THEN /\ gResp' = DbCaught
              /\ gPc' = "idle"
              /\ UNCHANGED <<gRuns, gUrls, gAnalyses>>
       ELSE IF found = 0
         THEN /\ DbUpdateAndAnswer("FAILED",
                   DbResponse(404, FALSE,
                              "No study websites found in search results"))
              /\ gPc' = "idle"
              /\ UNCHANGED <<gUrls, gAnalyses>>
       ELSE /\ gUrls' = found
            /\ gAnalyses' = 0
            /\ gPc' = "analyze"
            /\ UNCHANGED <<gRuns, gResp>>
  /\ UNCHANGED gSeen

\* one turn of `for (const url of urls)`: the body pushes an analysis or
\* throws into the inner catch, which continues
DbAnalyzeSite ==
  /\ gPc = "analyze"
  /\ gUrls > 0
  /\ \E pushed \in BOOLEAN :
       gAnalyses' = IF pushed THEN gAnalyses + 1 ELSE gAnalyses
  /\ gUrls' = gUrls - 1
  /\ UNCHANGED <<gPc, gRuns, gResp, gSeen>>

\* `if (siteAnalyses.length === 0)` after the loop
DbAfterAnalysis ==
  /\ gPc = "analyze"
  /\ gUrls = 0
  /\ IF gAnalyses = 0
       THEN /\ DbUpdateAndAnswer("FAILED",
                 DbResponse(500, FALSE, "Failed to analyze any websites"))
            /\ gPc' = "idle"
       ELSE /\ gPc' = "rank"
            /\ UNCHANGED <<gRuns, gResp>>
  /\ UNCHANGED <<gUrls, gAnalyses, gSeen>>

\* the prisma.siteScore.updateMany loop over topSites
DbRank ==
  /\ gPc = "rank"
  /\ \E throws \in BOOLEAN :
       IF throws
         THEN gResp' = DbCaught /\ gPc' = "idle"
         ELSE gPc' = "complete" /\ UNCHANGED gResp
  /\ UNCHANGED <<gRuns, gUrls, gAnalyses, gSeen>>

\* the update to COMPLETED and the response with the results
DbComplete ==
  /\ gPc = "complete"
  /\ DbUpdateAndAnswer("COMPLETED", DbResponse(200, TRUE, ""))
  /\ gPc' = "idle"
  /\ UNCHANGED <<gUrls, gAnalyses, gSeen>>

\* GET ?runId=: 0 stands for a request without runId, an id beyond the
\* table for one that findUnique does not find
DbGet ==
  /\ gPc # "-"
  /\ \E runId \in 0..(MaxDbRuns + 1), throws \in BOOLEAN :
       gSeen' = IF runId = 0 THEN "usage"
                ELSE IF throws THEN "Failed to fetch results"
                ELSE IF runId > Len(gRuns) THEN "Run not found"
                ELSE IF gRuns[runId] = "RUNNING" THEN "running"
                ELSE IF gRuns[runId] = "FAILED" THEN "failed"
                ELSE "completed"
  /\ UNCHANGED <<gPc, gRuns, gUrls, gAnalyses, gResp>>

Response(status, success, error, runId, niche, results) ==
  [status |-> status, success |-> success, error |-> error, runId |-> runId,
   niche |-> niche, results |-> results]

NoRequest ==
  [method |-> "-", body |-> Body("undefined", <<>>, 0),
   runId |-> NoRunId, discovered |-> FALSE, niche |-> <<>>, found |-> 0,
   scored |-> FALSE, raised |-> "none"]

NoResponse == Response(0, FALSE, "", NoRunId, <<>>, <<>>)

RouteInit ==
  /\ impl \in {"route", "page"}
  /\ now = 0
  /\ rateLimitMap = << >>
  /\ runStorage = << >>
  /\ resp = NoResponse
  /\ lastReq = NoRequest
  /\ accepted = << >>

RouteIdle ==
  /\ impl = "-"
  /\ now = 0
  /\ rateLimitMap = << >>
  /\ runStorage = << >>
  /\ resp = NoResponse
  /\ lastReq = NoRequest
  /\ accepted = << >>

\* the times of a log that lie in the 60 seconds that end at t
Recent(times, t) == SelectSeq(times, LAMBDA x : x > t - WindowMs)

\* Date.now() moves on by step, at most max times
Advance(step, max) ==
  /\ impl # "-"
  /\ now < max * step
  /\ now' = now + step
  /\ accepted' = [ip \in DOMAIN accepted |-> Recent(accepted[ip], now + step)]
  /\ UNCHANGED <<impl, rateLimitMap, runStorage, resp, lastReq>>

Tick == Advance(TickMs, MaxTicks)

\* the clock in steps of half a window
HalfTick == Advance(TickMs \div 2, 2 * MaxTicks)

\* the log of the submissions the limiter let through
Accept(ip, allow) ==
  IF ~allow THEN accepted
  ELSE IF ip \in DOMAIN accepted
    THEN [accepted EXCEPT ![ip] = Append(@, now)]
  ELSE (ip :> <<now>>) @@ accepted

Request(method, body, runId, discovered, niche, found, scored) ==
  [method |-> method, body |-> body, runId |-> runId,
   discovered |-> discovered, niche |-> niche, found |-> found,
   scored |-> scored, raised |-> "none"]

\* where an exception can be raised while a submission is processed:
\* nowhere, while discoverNicheWebsites is awaited, or from the scoring on
ExceptionPoints == {"none", "discovery", "scoring"}
Raised(req, where) == [req EXCEPT !.raised = where]

\* an exception that nothing catches: the handler gives no response
Uncaught(details) == Response(0, FALSE, "", NoRunId, <<>>, <<>>)

\* the catch of the try block around the whole handler
OuterCatch(details) ==
  Response(500, FALSE, "Failed to generate rankings", NoRunId, <<>>, <<>>)

\* the catch of the try block around discovery and scoring (live route)
InnerCatch(runId, niche) ==
  Response(200, FALSE, "Failed to analyze", runId, niche, <<>>)

Rejected(map, r) ==
  [map |-> map, pass |-> FALSE, allow |-> TRUE, niche |-> <<>>, resp |-> r]

\* a handler without the length check
NicheTooLongUnchecked(niche) == FALSE

\* `niche.length > 60`
NicheTooLong(niche) == Len(niche) > MaxNicheLength

\* the part of POST both route files share: rate limit, body, validation.
\* Gives the response of an early return, or the niche to go on with.
Validate(ip, body) ==
  LET rl == rateLimit(rateLimitMap, ip, now, RateLimit, WindowMs)
      trimmed == Trim(body.str)
      niche == IF Len(trimmed) = 0 THEN Study ELSE trimmed
  IN IF ~rl.allow
       THEN [Rejected(rl.map, Response(429, FALSE, "Rate limit exceeded",
                                       NoRunId, <<>>, <<>>))
               EXCEPT !.allow = FALSE]
     ELSE IF body.type = "badjson"
       THEN Rejected(rl.map, OuterCatch("request.json"))
     ELSE IF Falsy(body) \/ body.type # "string"
       THEN Rejected(rl.map, Response(400, FALSE, "Niche parameter is required",
                                      NoRunId, <<>>, <<>>))
     ELSE IF NicheTooLong(niche)
       THEN Rejected(rl.map, Response(400, FALSE,
                                      "Niche must be 60 characters or less",
                                      NoRunId, <<>>, <<>>))
     ELSE [map |-> rl.map, pass |-> TRUE, allow |-> TRUE, niche |-> niche,
           resp |-> NoResponse]

\* the scoring of the live route: Promise.all over the items, then the
\* sort and the rank rewrite
routeScoreAll(items, draws) ==
  Rerank(SortByScore(
    [k \in 1..Len(items) |->
       IF draws[k].threw THEN routeScoreItemFallback(items[k], k - 1)
       ELSE routeScoreItem(items[k], k - 1, draws[k].rnd)]))

\* scoreSites of the production route
scoreSites(origins, fetches) ==
  Rerank(SortByScore(
    [k \in 1..Len(origins) |->
       scoreSitesOne(origins[k].url, k - 1, fetches[k].site, fetches[k].psi,
                     fetches[k].opr)]))

\* POST of the live route (discovery as in the google-search service)
PostRouteWith(ips, bodies, scripts) ==
  /\ impl = "route"
  /\ \E ip \in ips, body \in bodies :
     \E v \in {Validate(ip, body)} :
       /\ rateLimitMap' = v.map
       /\ accepted' = Accept(ip, v.allow)
       /\ IF ~v.pass
            THEN /\ resp' = v.resp
                 /\ lastReq' = Request("POST", body, NoRunId, FALSE, <<>>, 0, FALSE)
                 /\ UNCHANGED runStorage
            ELSE \E script \in scripts :
                 \E discoveryResult \in
                      {CseReturnValue(CseAccumulate(EmptyAcc, script))} :
                 \E raised \in ExceptionPoints :
                 \E suffix \in RunSuffixesFor(raised) :
                   LET runId == RunId(now, suffix)
                       n == Len(discoveryResult.items)
                   IN IF raised = "discovery" \/ (raised = "scoring" /\ n > 0)
                        THEN /\ resp' = InnerCatch(runId, v.niche)
                             /\ lastReq' =
                                  Raised(Request("POST", body, runId, TRUE, v.niche,
                                                 IF raised = "scoring" THEN n ELSE 0,
                                                 FALSE), raised)
                             /\ UNCHANGED runStorage
                      ELSE IF n = 0
                        THEN /\ resp' = Response(200, FALSE,
                                          IF discoveryResult.error.has
                                            THEN discoveryResult.error.msg
                                            ELSE "No websites found",
                                          runId, v.niche, <<>>)
                             /\ lastReq' = Request("POST", body, runId, TRUE,
                                                   v.niche, 0, FALSE)
                             /\ UNCHANGED runStorage
                        ELSE /\ \/ runId \in DOMAIN runStorage
                                \/ Cardinality(DOMAIN runStorage) < MaxRuns
                             /\ \E draws \in SubmitDrawSeqs(n) :
                                \E scoredSites \in
                                     {routeScoreAll(discoveryResult.items, draws)} :
                                  /\ runStorage' =
                                       (runId :> [id |-> runId, niche |-> v.niche,
                                                  nicheSlug |-> slugify(v.niche),
                                                  status |-> "completed",
                                                  results |-> scoredSites])
                                         @@ runStorage
                                  /\ resp' = Response(200, TRUE, "", runId,
                                                      v.niche, scoredSites)
                                  /\ lastReq' = Request("POST", body, runId, TRUE,
                                                        v.niche, n, TRUE)
  /\ UNCHANGED <<impl, now>>

PostRoute == PostRouteWith(IPs, Bodies, SubmitScripts(CseQueries))

\* GET of the live route; runId = NoRunId: no run parameter
GetRoute ==
  /\ impl = "route"
  /\ \E runId \in {NoRunId} \cup {RunId(t, x) : t \in {0, now}, x \in RunSuffixes} :
       /\ resp' =
            IF runId = NoRunId
              THEN Response(200, FALSE, "usage", NoRunId, <<>>, <<>>)
            ELSE IF runId \notin DOMAIN runStorage
              THEN Response(404, FALSE, "Run not found", NoRunId, <<>>, <<>>)
            ELSE Response(200, TRUE, "", runStorage[runId].id,
                          runStorage[runId].niche, runStorage[runId].results)
       /\ lastReq' = Request("GET", Body("undefined", <<>>, 0), runId, FALSE,
                             <<>>, 0, FALSE)
  /\ UNCHANGED <<impl, now, rateLimitMap, runStorage, accepted>>

\* POST of the production route: own discovery and scoring, nothing stored
PostPageWith(ips, bodies, scripts) ==
  /\ impl = "page"
  /\ \E ip \in ips, body \in bodies :
     \E v \in {Validate(ip, body)} :
       /\ rateLimitMap' = v.map
       /\ accepted' = Accept(ip, v.allow)
       /\ IF ~v.pass
            THEN /\ resp' = v.resp
                 /\ lastReq' = Request("POST", body, NoRunId, FALSE, <<>>, 0, FALSE)
            ELSE \E script \in scripts :
                 \E origins \in
                      {PageReturnValue(PageAccumulate(EmptyAcc, script)).items} :
                 \E raised \in ExceptionPoints :
                 \E suffix \in RunSuffixesFor(raised) :
                   LET runId == RunId(now, suffix)
                       n == Len(origins)
                   IN IF raised = "discovery" \/ (raised = "scoring" /\ n > 0)
                        THEN /\ resp' = OuterCatch(raised)
                             /\ lastReq' =
                                  Raised(Request("POST", body, runId, TRUE, v.niche,
                                                 IF raised = "scoring" THEN n ELSE 0,
                                                 FALSE), raised)
                      ELSE IF n = 0
                        THEN /\ resp' = Response(200, FALSE, "No websites found",
                                                 runId, v.niche, <<>>)
                             /\ lastReq' = Request("POST", body, runId, TRUE,
                                                   v.niche, 0, FALSE)
                        ELSE \E fetches \in [1..n -> SubmitFetches] :
                               /\ resp' = Response(200, TRUE, "", runId, v.niche,
                                                   scoreSites(origins, fetches))
                               /\ lastReq' = Request("POST", body, runId, TRUE,
                                                     v.niche, n, TRUE)
  /\ UNCHANGED <<impl, now, runStorage>>

PostPage == PostPageWith(IPs, Bodies, SubmitScripts(PageQueries))

\* submissions of two clients, told apart by their forwarded address, with
\* a valid niche, for which the search provider fails
ClientIPs == {"unknown", "10.0.0.1"}
ValidBodies == { Body("string", <<"a">>, 0) }
FailingScripts(n) == { [k \in 1..Min(n, MaxVariants) |-> <<CallFailed, CallFailed>>] }
PostRouteClients ==
  PostRouteWith(ClientIPs, ValidBodies, FailingScripts(CseQueries))
PostPageClients ==
  PostPageWith(ClientIPs, ValidBodies, FailingScripts(PageQueries))

\* GET of the production route: sample data, whatever the run id
GetPage ==
  /\ impl = "page"
  /\ \E runId \in {NoRunId} \cup {RunId(t, x) : t \in {0, now}, x \in RunSuffixes} :
       /\ resp' =
            IF runId = NoRunId
              THEN Response(200, FALSE, "usage", NoRunId, <<>>, <<>>)
            ELSE Response(200, TRUE, "", runId,
                          <<"f", "i", "t", "n", "e", "s", "s", " ", "a", "p", "p", "s">>,
                          <<>>)
       /\ lastReq' = Request("GET", Body("undefined", <<>>, 0), runId, FALSE,
                             <<>>, 0, FALSE)
  /\ UNCHANGED <<impl, now, rateLimitMap, runStorage, accepted>>

vars == <<dvars, svars, fvars, rvars, gvars, lvars>>

\* the route handlers serving requests; discovery and scoring run inside them
Init ==
  RouteInit /\ DiscoverIdle /\ ScoreIdle /\ FetchIdle /\ DbIdle /\ LimitersIdle

Next ==
  \/ Tick /\ UNCHANGED <<dvars, svars, fvars, gvars, lvars>>
  \/ PostRoute /\ UNCHANGED <<dvars, svars, fvars, gvars, lvars>>
  \/ GetRoute /\ UNCHANGED <<dvars, svars, fvars, gvars, lvars>>
  \/ PostPage /\ UNCHANGED <<dvars, svars, fvars, gvars, lvars>>
  \/ GetPage /\ UNCHANGED <<dvars, svars, fvars, gvars, lvars>>

Spec == Init /\ [][Next]_vars

\* submissions of several clients as the clock moves through the windows
\* of the rate limiter
NextRateLimit ==
  \/ HalfTick /\ UNCHANGED <<dvars, svars, fvars, gvars, lvars>>
  \/ PostRouteClients /\ UNCHANGED <<dvars, svars, fvars, gvars, lvars>>
  \/ PostPageClients /\ UNCHANGED <<dvars, svars, fvars, gvars, lvars>>

SpecRateLimit == Init /\ [][NextRateLimit]_vars

\* one call of discoverNicheWebsites, query by query
InitDiscover ==
  DiscoverInit /\ ScoreIdle /\ FetchIdle /\ RouteIdle /\ DbIdle /\ LimitersIdle

NextDiscover ==
  \/ CseTryVariant /\ UNCHANGED <<svars, fvars, rvars, gvars, lvars>>
  \/ CseReturn /\ UNCHANGED <<svars, fvars, rvars, gvars, lvars>>
  \/ PageTryVariant /\ UNCHANGED <<svars, fvars, rvars, gvars, lvars>>
  \/ PageReturn /\ UNCHANGED <<svars, fvars, rvars, gvars, lvars>>
  \/ OprNoSearch /\ UNCHANGED <<svars, fvars, rvars, gvars, lvars>>
  \/ OprQuery /\ UNCHANGED <<svars, fvars, rvars, gvars, lvars>>
  \/ OprReturn /\ UNCHANGED <<svars, fvars, rvars, gvars, lvars>>
  \/ OprTimeout /\ UNCHANGED <<svars, fvars, rvars, gvars, lvars>>

SpecDiscover == InitDiscover /\ [][NextDiscover]_vars

\* the end of a discovery whose calls all answered with full pages
InitFullPages ==
  FullPagesInit /\ ScoreIdle /\ FetchIdle /\ RouteIdle /\ DbIdle /\ LimitersIdle

NextFullPages ==
  \/ CseReturn /\ UNCHANGED <<svars, fvars, rvars, gvars, lvars>>
  \/ PageReturn /\ UNCHANGED <<svars, fvars, rvars, gvars, lvars>>
  \/ OprReturn /\ UNCHANGED <<svars, fvars, rvars, gvars, lvars>>

SpecFullPages == InitFullPages /\ [][NextFullPages]_vars

\* the analysis of one candidate, call by call
InitFetch ==
  FetchInit /\ DiscoverIdle /\ ScoreIdle /\ RouteIdle /\ DbIdle /\ LimitersIdle

NextFetch ==
  \/ StartSite /\ UNCHANGED <<dvars, svars, rvars, gvars, lvars>>
  \/ SettleSite /\ UNCHANGED <<dvars, svars, rvars, gvars, lvars>>
  \/ StartPsi /\ UNCHANGED <<dvars, svars, rvars, gvars, lvars>>
  \/ SettlePsi /\ UNCHANGED <<dvars, svars, rvars, gvars, lvars>>
  \/ StartOpr /\ UNCHANGED <<dvars, svars, rvars, gvars, lvars>>
  \/ SettleOpr /\ UNCHANGED <<dvars, svars, rvars, gvars, lvars>>
  \/ FetchReturn /\ UNCHANGED <<dvars, svars, rvars, gvars, lvars>>

SpecFetch == InitFetch /\ [][NextFetch]_vars

\* one call of the scorer, candidate by candidate
InitScore ==
  ScoreInit /\ DiscoverIdle /\ FetchIdle /\ RouteIdle /\ DbIdle /\ LimitersIdle

NextScore ==
  \/ MultiBatchStart /\ UNCHANGED <<dvars, fvars, rvars, gvars, lvars>>
  \/ MultiScoreSite /\ UNCHANGED <<dvars, fvars, rvars, gvars, lvars>>
  \/ MultiBatchJoin /\ UNCHANGED <<dvars, fvars, rvars, gvars, lvars>>
  \/ MultiReturn /\ UNCHANGED <<dvars, fvars, rvars, gvars, lvars>>
  \/ PageScoreNext /\ UNCHANGED <<dvars, fvars, rvars, gvars, lvars>>
  \/ PageSortReturn /\ UNCHANGED <<dvars, fvars, rvars, gvars, lvars>>
  \/ RouteScoreNext /\ UNCHANGED <<dvars, fvars, rvars, gvars, lvars>>
  \/ RouteSortRank /\ UNCHANGED <<dvars, fvars, rvars, gvars, lvars>>

SpecScore == InitScore /\ [][NextScore]_vars

\* one call of the scorer on a list of several batches
InitLongScore ==
  LongScoreInit /\ DiscoverIdle /\ FetchIdle /\ RouteIdle /\ DbIdle /\ LimitersIdle

SpecLongScore == InitLongScore /\ [][NextScore]_vars

\* the database-backed route: POST step by step, GET at any time
InitDb ==
  DbInit /\ DiscoverIdle /\ ScoreIdle /\ FetchIdle /\ RouteIdle /\ LimitersIdle

NextDb ==
  \/ DbPost /\ UNCHANGED <<dvars, svars, fvars, rvars, lvars>>
  \/ DbSearch /\ UNCHANGED <<dvars, svars, fvars, rvars, lvars>>
  \/ DbAnalyzeSite /\ UNCHANGED <<dvars, svars, fvars, rvars, lvars>>
  \/ DbAfterAnalysis /\ UNCHANGED <<dvars, svars, fvars, rvars, lvars>>
  \/ DbRank /\ UNCHANGED <<dvars, svars, fvars, rvars, lvars>>
  \/ DbComplete /\ UNCHANGED <<dvars, svars, fvars, rvars, lvars>>
  \/ DbGet /\ UNCHANGED <<dvars, svars, fvars, rvars, lvars>>

SpecDb == InitDb /\ [][NextDb]_vars

\* the two limiters on one sequence of requests
InitLimiters ==
  LimitersInit /\ DiscoverIdle /\ ScoreIdle /\ FetchIdle /\ RouteIdle /\ DbIdle

NextLimiters ==
  \/ LimiterTick /\ UNCHANGED <<dvars, svars, fvars, rvars, gvars>>
  \/ LimiterRequest /\ UNCHANGED <<dvars, svars, fvars, rvars, gvars>>

SpecLimiters == InitLimiters /\ [][NextLimiters]_vars

(***************************************************************************)
(* Properties                                                              *)
(***************************************************************************)
SortedByScore(rs) ==
  \A k \in 1..(Len(rs) - 1) : rs[k].score >= rs[k + 1].score
RankedFromOne(rs) == \A k \in 1..Len(rs) : rs[k].rank = k

C2_DistinctOrigins ==
  dPc = "done"
    => \A i \in 1..Len(dOut.items), j \in 1..Len(dOut.items) :
         i # j => Origin(dOut.items[i].url) # Origin(dOut.items[j].url)

\* a discovery that returned two candidates from raw results of which two
\* had the same origin
C2_Witness ==
  /\ dPc = "done"
  /\ Len(dOut.items) >= 2
  /\ \E i \in 1..Len(dAcc.all), j \in 1..Len(dAcc.all) :
       /\ i # j
       /\ dAcc.all[i].link.wf /\ dAcc.all[j].link.wf
       /\ Origin(dAcc.all[i].link) = Origin(dAcc.all[j].link)

\* every result the scorer has produced so far, in any of its stages
EmittedResults ==
  {sResults[k] : k \in 1..Len(sResults)}
    \cup {sOut[k] : k \in 1..Len(sOut)}
    \cup {sBatch[k][1] : k \in {j \in 1..Len(sBatch) : sBatch[j] # <<>>}}

UrlOfResult(r) == IF sImpl = "multi" THEN r.url ELSE r.site.url
UrlOfCandidate(k) == IF sImpl = "route" THEN sCands[k].url ELSE sCands[k]

\* C4: when the scorer is done there are as many results as candidates,
\* and a candidate whose performance (authority) fetch failed or timed out
\* is among them with performance (authority) component 0 and the search
\* component of its position.
C4_FailedFetchScoresZero ==
  sPc = "done"
    => /\ Len(sOut) = Len(sCands)
       /\ \A k \in 1..Len(sCands) :
            \E j \in 1..Len(sOut) :
              /\ UrlOfResult(sOut[j]) = UrlOfCandidate(k)
              /\ sFetch[k].psi => sOut[j].components.performance = 0
              /\ sFetch[k].opr => sOut[j].components.authority = 0
              /\ (sFetch[k].psi \/ sFetch[k].opr) /\ ~sFetch[k].threw
                   => sOut[j].components.search = Max(0, 100 - (k - 1) * 10)

\* a finished scoring of two candidates: the performance fetch failed for
\* one, the authority fetch for the other
C4_Witness ==
  /\ sPc = "done" /\ Len(sCands) >= 2
  /\ \E k \in 1..Len(sCands), m \in 1..Len(sCands) :
       /\ k # m
       /\ sFetch[k].psi /\ ~sFetch[k].opr /\ ~sFetch[k].threw
       /\ sFetch[m].opr /\ ~sFetch[m].psi /\ ~sFetch[m].threw

InRange(v) == 0 <= v /\ v <= 100

\* C5: for every candidate and every answer of the external services, the
\* five component scores and the total of a result lie in 0..100.
C5_ScoresInRange ==
  \A r \in EmittedResults :
    /\ InRange(r.components.search)
    /\ InRange(r.components.performance)
    /\ InRange(r.components.authority)
    /\ InRange(r.components.freshness)
    /\ InRange(r.components.usability)
    /\ InRange(r.score)

\* C6: a submission whose niche is the empty string is not rejected:
\* unless the rate limit turns it away, discovery runs for it, with the
\* niche "study".
C6_EmptyNicheIsStudy ==
  (lastReq.method = "POST" /\ lastReq.body = Body("string", <<>>, 0)
     /\ resp.status # 429)
    => lastReq.discovered /\ lastReq.niche = Study

\* the niche of a body is missing, not a string, or longer than 60
\* characters once trimmed
BadNiche(b) ==
  \/ b.type \in {"undefined", "number"}
  \/ b.type = "string" /\ Len(Trim(b.str)) > MaxNicheLength

\* C7: a submission whose niche is missing, not a string, or longer than
\* 60 characters after trimming is turned away (400, or 429 by the rate
\* limit): no discovery and no scoring run for it, and the run store is
\* left as it was.
C7_RejectedAtBoundary ==
  [][ (lastReq'.method = "POST" /\ BadNiche(lastReq'.body))
        => /\ resp'.status \in {400, 429}
           /\ ~resp'.success
           /\ ~lastReq'.discovered
           /\ ~lastReq'.scored
           /\ runStorage' = runStorage ]_vars

\* a niche of 61 characters answered with 400 while a run is in the store
C7_Witness ==
  /\ lastReq.method = "POST"
  /\ lastReq.body = Body("string", Str("a", MaxNicheLength + 1), 0)
  /\ resp.status = 400
  /\ runStorage # << >>

\* C8: a submission answered with results leaves a run under its runId
\* with the niche and the results of the answer; a retrieval by an id
\* answers with the niche and the results stored under it, and with 404
\* when nothing is stored under it.
C8_RoundTrip ==
  /\ (lastReq.method = "POST" /\ resp.success)
       => /\ resp.runId \in DOMAIN runStorage
          /\ runStorage[resp.runId].niche = resp.niche
          /\ runStorage[resp.runId].results = resp.results
  /\ (lastReq.method = "GET" /\ lastReq.runId # NoRunId)
       => IF lastReq.runId \in DOMAIN runStorage
            THEN /\ resp.status = 200
                 /\ resp.niche = runStorage[lastReq.runId].niche
                 /\ resp.results = runStorage[lastReq.runId].results
            ELSE resp.status = 404

\* C9: a discovery that returns no candidate returns an error with the
\* empty list (the discoveries that have an error to return: the
\* google-search service and the provider-based one).
C9_EmptyListHasError ==
  (dPc = "done" /\ dImpl \in {"cse", "opr"} /\ Len(dOut.items) = 0)
    => dOut.error.has

\* C10: a submission whose discovery found no candidate is answered with
\* a failure naming the run and the niche, with an error and no results;
\* nothing is scored; and the run is in the store, marked failed, under
\* the id of the answer.
C10_ZeroCandidatesRunFailed ==
  (lastReq.method = "POST" /\ lastReq.discovered /\ lastReq.found = 0
     /\ lastReq.raised = "none")
    => /\ ~resp.success
       /\ resp.results = <<>>
       /\ resp.error # ""
       /\ resp.runId # NoRunId
       /\ resp.niche = lastReq.niche
       /\ ~lastReq.scored
       /\ resp.runId \in DOMAIN runStorage
       /\ runStorage[resp.runId].status = "failed"

\* the origins of the accumulated raw results that parse and that the
\* skip-list of the running version lets through
KeptOrigins ==
  { Origin(dAcc.all[k].link) :
      k \in { j \in 1..Len(dAcc.all) :
                /\ dAcc.all[j].link.wf
                /\ IF dImpl = "page"
                     THEN ~shouldSkipDomainPage(dAcc.all[j].link.host)
                     ELSE ~shouldSkipDomainCse(dAcc.all[j].link.host) } }

\* what the deduplication loop of the running version accumulated
Accumulated ==
  IF dImpl = "page" THEN PageDedup(dAcc.all, {}, <<>>)
  ELSE CseDedup(dAcc.all, {}, <<>>)

\* C11: discover returns at most 10 candidates.  The deduplication stops
\* accumulating at 15 unique origins, and the returned list is the first
\* 10 of the accumulated ones: as many as were found when fewer than 10
\* were found, never more and never padded.
C11_AtMostTen ==
  (dPc = "done" /\ dImpl \in {"cse", "page"})
    => /\ Len(dOut.items) <= 10
       /\ Len(dOut.items) = Min(10, Cardinality(KeptOrigins))
       /\ Len(Accumulated) = Min(15, Cardinality(KeptOrigins))
       /\ dOut.items = SubSeq(Accumulated, 1, Len(dOut.items))

\* a discovery that found more than 15 sites and returned 10
C11_Witness ==
  /\ dPc = "done" /\ dImpl \in {"cse", "page"}
  /\ Cardinality(KeptOrigins) > 15
  /\ Len(dOut.items) = 10

\* the results the provider gave for page p of query variant v (none when
\* the call was not made or failed)
ItemsOfCall(v, p) ==
  IF \E k \in 1..Len(dCalls) :
       dCalls[k].variant = v /\ dCalls[k].page = p /\ dCalls[k].ok
    THEN dCalls[CHOOSE k \in 1..Len(dCalls) :
                  dCalls[k].variant = v /\ dCalls[k].page = p /\ dCalls[k].ok].items
    ELSE <<>>

\* the provider results in query-variant order, page 1 before page 2
RECURSIVE ScanFrom(_)
ScanFrom(v) ==
  IF v > CseQueries THEN <<>>
  ELSE ItemsOfCall(v, 1) \o ItemsOfCall(v, 2) \o ScanFrom(v + 1)
ProviderScan == ScanFrom(1)

AppearsAt(scan, o) ==
  { k \in 1..Len(scan) : scan[k].link.wf /\ Origin(scan[k].link) = o }
FirstAppearance(scan, o) ==
  CHOOSE k \in AppearsAt(scan, o) : \A j \in AppearsAt(scan, o) : k <= j

\* C12: the candidates discover returns are in the order in which their
\* origins first appear when the provider results are scanned in
\* query-variant order, page 1 of a variant before its page 2.
C12_FirstAppearanceOrder ==
  (dPc = "done" /\ dImpl \in {"cse", "page"})
    => /\ \A i \in 1..Len(dOut.items) :
            AppearsAt(ProviderScan, Origin(dOut.items[i].url)) # {}
       /\ \A i \in 1..Len(dOut.items), j \in 1..Len(dOut.items) :
            i < j => FirstAppearance(ProviderScan, Origin(dOut.items[i].url))
                       < FirstAppearance(ProviderScan, Origin(dOut.items[j].url))

\* a discovery that returned two candidates, the second from a second
\* page, and met the origin of the first again after the second
C12_Witness ==
  /\ dPc = "done" /\ dImpl \in {"cse", "page"}
  /\ Len(dOut.items) >= 2
  /\ \E v \in 1..CseQueries :
       \E k \in 1..Len(ItemsOfCall(v, 2)) :
         /\ ItemsOfCall(v, 2)[k].link.wf
         /\ Origin(ItemsOfCall(v, 2)[k].link) = Origin(dOut.items[2].url)
  /\ \E k \in AppearsAt(ProviderScan, Origin(dOut.items[1].url)) :
       k > FirstAppearance(ProviderScan, Origin(dOut.items[2].url))

\* every raw result a provider call answered with
RawResults ==
  UNION { { dCalls[k].items[m] : m \in 1..Len(dCalls[k].items) } :
            k \in { j \in 1..Len(dCalls) : dCalls[j].ok } }

\* raw results whose link parses and whose host, without a leading "www.",
\* is not in the skip-list of the running version
UsableRaw ==
  { r \in RawResults :
      /\ r.link.wf
      /\ StripLeadingWww(r.link.host)
           \notin (IF dImpl = "page" THEN skipDomainsPage ELSE skipDomainsCse) }

\* C20: every candidate discover returns comes from a raw provider result
\* whose link parses as a URL and whose host, stripped of a leading
\* "www.", is not in the skip-list: its URL is that link (the google-search
\* service) or the origin of that link (the production route, which
\* returns origins).  Nothing is returned that no raw result gave.
C20_FromRawResults ==
  (dPc = "done" /\ dImpl \in {"cse", "page"})
    => \A i \in 1..Len(dOut.items) :
         \E r \in UsableRaw :
           IF dImpl = "cse"
             THEN dOut.items[i].url = r.link
             ELSE dOut.items[i].url = Url(r.link.scheme, r.link.host, 0, FALSE)

\* a discovery that returned a candidate although the provider also gave
\* an unparsable link and a skip-listed "www." host
C20_Witness ==
  /\ dPc = "done" /\ dImpl = "cse"
  /\ Len(dOut.items) >= 1
  /\ \E r \in RawResults : ~r.link.wf
  /\ \E r \in RawResults :
       r.link.wf /\ r.link.host = <<"www", "youtube", "com">>

\* C13: the run store is write-once per run id: a record is written only
\* by a submission whose scoring and ranking have completed, and no later
\* step, another submission included, changes or replaces the record that
\* is stored under an id.
C13_WriteOnce ==
  [][ /\ \A id \in DOMAIN runStorage :
           id \in DOMAIN runStorage' /\ runStorage'[id] = runStorage[id]
      /\ runStorage' # runStorage
           => /\ lastReq'.method = "POST" /\ lastReq'.scored
              /\ lastReq'.runId \in DOMAIN runStorage'
              /\ SortedByScore(runStorage'[lastReq'.runId].results)
              /\ RankedFromOne(runStorage'[lastReq'.runId].results) ]_vars

\* C14: an exception raised in discovery or in scoring while a submission
\* is processed does not leave the handler: the submission is answered
\* once, with a failure response (an error, no results), and nothing is
\* stored for it.  Every submission ends with a response.
C14_ExceptionsCaught ==
  [][ lastReq'.method = "POST"
        => /\ resp'.status \in {200, 400, 429, 500}
           /\ (lastReq'.raised # "none" \/ lastReq'.body.type = "badjson")
                => /\ ~resp'.success
                   /\ resp'.error # ""
                   /\ resp'.results = <<>>
                   /\ runStorage' = runStorage ]_vars

\* a submission for which candidates were found and whose scoring raised
C14_Witness ==
  /\ lastReq.method = "POST"
  /\ lastReq.raised = "scoring" /\ lastReq.found > 0
  /\ ~resp.success /\ resp.status \in {200, 500}

\* C15: the three signal fetchers of one candidate run concurrently: none
\* of them is still waiting to be started when another one has finished
\* or timed out.
C15_FetchersConcurrent ==
  \A f \in Fetchers, g \in Fetchers :
    fState[g] = "settled" => fState[f] # "idle"

\* the events before position e of the scoring log
CountBefore(e, ev) ==
  Cardinality({ j \in 1..(e - 1) : sLog[j].ev = ev })
FinishedBefore(e, k) ==
  \E j \in 1..(e - 1) : sLog[j] = Event("finish", k)

\* C16: candidates are scored in consecutive batches of 3.  At no moment
\* are more than 3 candidates being scored; a candidate is started only
\* when every candidate of the batches before its own has finished; one
\* pause has been taken between each two consecutive batches, and none
\* after the last batch.
C16_BatchesOfThree ==
  /\ \A e \in 1..(Len(sLog) + 1) :
       CountBefore(e, "start") - CountBefore(e, "finish") <= 3
  /\ \A e \in 1..Len(sLog) :
       sLog[e].ev = "start"
         => /\ \A k \in 1..(3 * ((sLog[e].k - 1) \div 3)) : FinishedBefore(e, k)
            /\ CountBefore(e, "pause") = (sLog[e].k - 1) \div 3
  /\ sPc = "done"
       => CountBefore(Len(sLog) + 1, "pause") = (Len(sCands) - 1) \div 3

\* C17: for every client IP, at most 3 submissions are accepted within
\* any period of 60 seconds; a submission the limiter turns away is
\* answered with 429 and starts no discovery.
C17_ThreePerMinute ==
  /\ \A ip \in DOMAIN accepted : Len(accepted[ip]) <= 3
  /\ (lastReq.method = "POST" /\ resp.status = 429) => ~lastReq.discovered

\* C18: scoring is deterministic: a second run of the scorer on the same
\* ordered candidates, with the same answers of the fetchers, returns the
\* same components, totals and ranks as the first.
C18_Deterministic ==
  sPc = "done" => sOutTwin = sOut

\* C19: when the site fetch of a candidate succeeds, its usability component
\* is 100 times the sum of the weights of the checks that pass: HTTPS (0.4),
\* a viewport meta tag (0.3), an Open Graph meta tag (0.3), whatever the
\* page holds for the last two; so it is one of 0, 30, 40, 60, 70, 100.
C19_UsabilityChecks ==
  (fOut # <<>> /\ fAnswer["site"][1].kind = "ok") =>
    \E viewport \in BOOLEAN, openGraph \in BOOLEAN :
      fOut[1].components.usability =
          (IF fOrigin.scheme = "https" THEN 40 ELSE 0)
        + (IF viewport THEN 30 ELSE 0)
        + (IF openGraph THEN 30 ELSE 0)

\* the number of query variants the running version goes through
VariantsToTry ==
  Min(IF dImpl = "page" THEN PageQueries ELSE CseQueries, MaxVariants)

\* C21: a failing provider call is not fatal to discovery.  What was
\* accumulated is, at every moment, every result of every call that
\* answered (the first page of a variant whose second page failed
\* included); the calls are made in variant order and, when discovery
\* returns, every variant was queried; and it returns candidates whenever
\* an answered result has a usable origin.
C21_VariantFailureNotFatal ==
  dImpl \in {"cse", "page"}
    => /\ dAcc.all = ProviderScan
       /\ \A j \in 1..Len(dCalls), k \in 1..Len(dCalls) :
            j < k => dCalls[j].variant <= dCalls[k].variant
       /\ dPc = "done"
            => /\ \A v \in 1..VariantsToTry :
                    \E k \in 1..Len(dCalls) :
                      dCalls[k].variant = v /\ dCalls[k].page = 1
               /\ KeptOrigins # {} => Len(dOut.items) > 0

\* a discovery whose first variant failed on its second page and whose
\* only candidate comes from the first page of that variant, with the
\* later variants queried
C21_Witness ==
  /\ dPc = "done" /\ dImpl \in {"cse", "page"}
  /\ \E k \in 1..Len(dCalls) :
       dCalls[k].variant = 1 /\ dCalls[k].page = 2 /\ ~dCalls[k].ok
  /\ \E k \in 1..Len(dCalls) : dCalls[k].variant = VariantsToTry
  /\ VariantsToTry > 1
  /\ Len(dOut.items) = 1
  /\ ItemsOfCall(1, 1) # <<>>
  /\ ItemsOfCall(1, 1)[1].link.wf
  /\ Origin(ItemsOfCall(1, 1)[1].link) = Origin(dOut.items[1].url)

\* the positions of the log at which the provider was called for variant v
CallsOf(v) == { k \in 1..Len(dCalls) : dCalls[k].variant = v }

\* C22: the provider is called for the second page of a query variant only
\* right after a first-page call of that variant that answered with at
\* least one result; a variant whose first page fails or is empty causes
\* exactly one call, and no variant more than two.
C22_SecondPageOnlyAfterResults ==
  dImpl \in {"cse", "page"}
    => /\ \A k \in 1..Len(dCalls) :
            dCalls[k].page = 2
              => /\ k > 1
                 /\ dCalls[k - 1].variant = dCalls[k].variant
                 /\ dCalls[k - 1].page = 1
                 /\ dCalls[k - 1].ok
                 /\ Len(dCalls[k - 1].items) > 0
       /\ \A k \in 1..Len(dCalls) :
            (dCalls[k].page = 1 /\ (~dCalls[k].ok \/ dCalls[k].items = <<>>))
              => CallsOf(dCalls[k].variant) = {k}
       /\ \A v \in 1..VariantsToTry : Cardinality(CallsOf(v)) <= 2

\* a discovery with a variant of one call, its first page empty, and a
\* variant of two calls
C22_Witness ==
  /\ dPc = "done" /\ dImpl \in {"cse", "page"}
  /\ \E k \in 1..Len(dCalls) :
       /\ dCalls[k].page = 1 /\ dCalls[k].ok /\ dCalls[k].items = <<>>
       /\ CallsOf(dCalls[k].variant) = {k}
  /\ \E v \in 1..VariantsToTry : Cardinality(CallsOf(v)) = 2

\* C23: during discovery the loop waits between every two consecutive
\* calls to the search provider.
C23_DelayBetweenCalls ==
  \A k \in 1..Len(dCalls) : k < Len(dCalls) => Delayed(k)

\* a call that ran into a timer: the AbortController of the fetcher, or the
\* timer the scorer races the fetcher against
TimedOut(answer) == answer.kind \in {"abort", "racetimeout"}
\* the same call failing instead: the request rejects
AsFailure(f, answer) ==
  IF TimedOut(answer)
    THEN [answer EXCEPT !.kind = IF f = "site" THEN "fail" ELSE "neterr"]
    ELSE answer
\* the record of the candidate for given answers of the three calls
RecordFor(site, psi, opr) ==
  IF fImpl = "multi" THEN scoreSite(fOrigin, fRank, site, psi, opr)
  ELSE scoreSitesOne(fOrigin, fRank - 1, site, psi, opr)

\* C24: every external call for a candidate is made at most once: a call
\* that was started is never started again, and an answer, once there, is
\* the one the record is computed from.  A call that times out has the
\* effect of a call that fails: the record of the candidate is the one it
\* would have with every timed-out call failing instead, and there is a
\* record whatever the calls did.
C24_OnceAndTimeoutAsFailure ==
  [][ /\ \A f \in Fetchers :
           /\ fState[f] # "idle" => fState'[f] # "idle"
           /\ fState[f] = "settled"
                => fState'[f] = "settled" /\ fAnswer'[f] = fAnswer[f]
      /\ fOut' # <<>>
           => /\ \A f \in Fetchers : fState'[f] = "settled"
              /\ Len(fOut') = 1
              /\ fOut'[1] = RecordFor(AsFailure("site", fAnswer'["site"][1]),
                                      AsFailure("psi", fAnswer'["psi"][1]),
                                      AsFailure("opr", fAnswer'["opr"][1])) ]_vars

\* a candidate of the scoring service with a record, whose PageSpeed call
\* was aborted by its timer and whose authority call lost the race
C24_Witness ==
  /\ fImpl = "multi" /\ fOut # <<>>
  /\ fAnswer["psi"][1].kind = "abort"
  /\ fAnswer["opr"][1].kind = "racetimeout"
  /\ fAnswer["site"][1].kind = "racetimeout"

\* C25: in the scoring service, a fetcher whose call fails, is answered
\* with a non-2xx status or an error body, or is aborted by its timer
\* returns the value 0 with an error; the authority fetcher returns 0
\* without an error when the service has no entry for the domain; and the
\* flags psiOk / oprOk of the scorer are true only when the call of the
\* fetcher succeeded.
C25_FetcherResults ==
  (fImpl = "multi" /\ fOut # <<>>)
    => LET psi == fAnswer["psi"][1]
           opr == fAnswer["opr"][1]
           flags == scoreSiteFlags(fAnswer["site"][1], psi, opr)
       IN /\ psi.kind \in {"neterr", "abort", "http", "apierror"}
               => /\ getPerformanceScore(psi).error.has
                  /\ getPerformanceScore(psi).performanceScore = 0
          /\ opr.kind \in {"neterr", "abort", "http", "status"}
               => /\ getAuthorityScore(opr).error.has
                  /\ getAuthorityScore(opr).authorityScore = 0
          /\ (opr.kind = "ok" /\ ~opr.has)
               => /\ ~getAuthorityScore(opr).error.has
                  /\ getAuthorityScore(opr).authorityScore = 0
          /\ flags.psiOk => psi.kind = "ok"
          /\ flags.oprOk => opr.kind = "ok"

\* title and description of a returned record, in either record shape
ShownOf(r) ==
  IF "site" \in DOMAIN r
    THEN [title |-> r.site.title, description |-> r.site.description]
    ELSE [title |-> r.title, description |-> r.description]

\* C26: a candidate whose site fetch fails or times out is still scored:
\* its usability component is 40 when its URL uses HTTPS and 0 otherwise,
\* and its title and description are the ones derived from the hostname.
C26_SiteFailureDefaults ==
  (fOut # <<>> /\ fAnswer["site"][1].kind # "ok")
    => /\ fOut[1].components.usability =
            IF fOrigin.scheme = "https" THEN 40 ELSE 0
       /\ ShownOf(fOut[1]).title = HostTitle(fOrigin)
       /\ ShownOf(fOut[1]).description = HostDescription(fOrigin)

\* the place of the candidate of a result in the list handed to the scorer
DiscoveryIndex(r) ==
  CHOOSE k \in 1..Len(sCands) : UrlOfCandidate(k) = UrlOfResult(r)

\* C27: of two results with the same total score, the one whose candidate
\* was discovered earlier has the smaller rank.
C27_TiesKeepDiscoveryOrder ==
  (sPc = "done" /\ sImpl \in {"page", "route"})
    => \A i \in 1..Len(sOut), j \in 1..Len(sOut) :
         (sOut[i].score = sOut[j].score
            /\ DiscoveryIndex(sOut[i]) < DiscoveryIndex(sOut[j]))
           => sOut[i].rank < sOut[j].rank

\* a run of two candidates that got the same total from different
\* components
C27_Witness ==
  /\ sPc = "done" /\ sImpl \in {"page", "route"}
  /\ Len(sOut) >= 2
  /\ sOut[1].score = sOut[2].score
  /\ sOut[1].components # sOut[2].components
  /\ DiscoveryIndex(sOut[1]) = 1

\* C28: in scoreMultipleSites the record at place k is the record of
\* candidate k, with the search score of rank k, in whatever order the
\* scorings of a batch settle; the list is returned in that order.  In the
\* scoring of the live route the record at place k before the sort is the
\* record of item k, with rank k.
C28_OutputFollowsInput ==
  /\ sImpl = "multi"
       => /\ \A k \in 1..Len(sBatch) :
               sBatch[k] # <<>>
                 => /\ sBatch[k][1].url = sCands[k]
                    /\ sBatch[k][1].components.search = Max(0, 100 - (k - 1) * 10)
          /\ \A k \in 1..Len(sResults) : sResults[k] = sBatch[k][1]
          /\ sPc = "done" => (Len(sOut) = Len(sCands) /\ sOut = sResults)
  /\ sImpl = "route"
       => \A k \in 1..Len(sResults) :
            /\ sResults[k].site.url = sCands[k].url
            /\ sResults[k].rank = k

\* a list of two batches returned by scoreMultipleSites, the scorings of the
\* second batch having settled last candidate first
C28_Witness ==
  /\ sImpl = "multi" /\ sPc = "done"
  /\ Len(sCands) > BatchSize + 1
  /\ \E a \in 1..Len(sLog), b \in 1..Len(sLog) :
       /\ a < b
       /\ sLog[a] = Event("finish", BatchSize + 2)
       /\ sLog[b] = Event("finish", BatchSize + 1)

\* C29: in the database-backed route, once POST has returned its response no
\* run is left in status RUNNING: each run POST created is COMPLETED or
\* FAILED by then, whatever the search call or a persistence call did
C29_NoRunLeftRunning ==
  gPc = "idle" => \A id \in DOMAIN gRuns : gRuns[id] # "RUNNING"

\* the part that holds: a response other than that of the outer catch
\* leaves no run in status RUNNING
C29_AnsweredOutsideCatch ==
  (gPc = "idle" /\ gResp # DbCaught /\ gResp # NoDbResponse)
    => gRuns[DbRun] # "RUNNING"

\* C30: on every request of a sequence with non-decreasing times the limiter
\* that first purges the expired entries and the route-local limiter that
\* never purges decide alike, and a denied request leaves the caller's
\* counter and window as they were, in both
C30_LimitersEquivalent ==
  [][(lNow' = lNow /\ lLast'.ip # "-") =>
       /\ lLast'.local = lLast'.purging
       /\ ~lLast'.local =>
            /\ lLocal'[lLast'.ip] = lLocal[lLast'.ip]
            /\ lPurging'[lLast'.ip] = lPurging[lLast'.ip]]_vars

\* what the purge changes: the purging limiter holds the entries of the
\* route-local one but for entries whose window is over
C30_PurgedEntriesExpired ==
  /\ \A ip \in DOMAIN lPurging :
       ip \in DOMAIN lLocal /\ lLocal[ip] = lPurging[ip]
  /\ \A ip \in DOMAIN lLocal \ DOMAIN lPurging : lNow > lLocal[ip].resetTime

\* a request was denied by both limiters after the purge had removed the
\* entry of another client, which the route-local limiter still holds
C30_Witness ==
  /\ lLast.ip \in LimiterIPs
  /\ ~lLast.local
  /\ ~lLast.purging
  /\ lLocal[lLast.ip].count = RateLimit
  /\ DOMAIN lLocal # DOMAIN lPurging
====
